---- MODULE Spec2Model ----
(***************************************************************************)
(* Model of the Kids-Video pipeline: the retry wrapper                     *)
(* (ai/prompt_generator.py), the outer story retry loop and generate       *)
(* (ai/story_generator.py), the text segmentation heuristic                *)
(* (media/utils.py), video assembly (media/video.py), narration            *)
(* (media/audio.py) and the SEO metadata (ai/seo.py).                      *)
(***************************************************************************)
EXTENDS Integers, Sequences, FiniteSets, TLC

VARIABLES
    call,       \* one activation of retry_api_call: its locals and its log
    story,      \* one activation of retry_story_generation
    seg,        \* one activation of collect_complete_story
    video,      \* one activation of create_video_from_images_and_audio
    meta,       \* calls of generate_seo_metadata and default_seo_metadata
    audio,      \* one activation of generate_audio_from_text
    gen,        \* one activation of generate
    prompter    \* one activation of generate_prompt

vars == <<call, story, seg, video, meta, audio, gen, prompter>>

Min(a, b) == IF a <= b THEN a ELSE b

(***************************************************************************)
(* config.py                                                               *)
(***************************************************************************)
MAX_CONSECUTIVE_FAILURES == 1000
RETRY_DELAY == 10
MIN_STORY_SEGMENTS == 6
SAMPLE_RATE == 24000

(***************************************************************************)
(* Bounds of the model                                                     *)
(***************************************************************************)
MaxBudget == 12

(***************************************************************************)
(* retry_api_call (ai/prompt_generator.py, lines 19-81)                    *)
(***************************************************************************)

\* What one invocation of retry_function can do: return a value (None is a
\* value an operation may return) or raise one of the error classes the
\* handlers name.
ErrorKinds == {"ResourceExhausted", "InternalServer", "InvalidArgSafety",
               "InvalidArgOther", "Other"}
ReturnValues == {"None", "a", "b"}
Outcomes == [kind : {"ok"}, value : ReturnValues]
              \cup [kind : ErrorKinds, value : {"-"}]

\* random.uniform(0.5, 1.5), in tenths.
Jitters == {5, 10, 15}

BudgetSet == (-1 .. MaxBudget) \cup {MAX_CONSECUTIVE_FAILURES}
DelaySet == {RETRY_DELAY, 25, 70}

\* The module's namespace: prompt_generator.py imports os, time, random,
\* genai, types, sys and four names of config.  It never binds custom_genai,
\* the name its three typed except clauses look up.
custom_genai_defined == FALSE

\* Locals of a fresh activation (lines 31-34) and the empty log.
retry_entry(budget, delay) ==
    [pc |-> "loop",
     max_consecutive_failures |-> budget,
     retry_delay |-> delay,
     retry_delay_arg |-> delay,   \* the retry_delay the caller passed
     failures |-> 0,
     last_exception |-> "None",
     safety_retry |-> FALSE,
     invoked |-> << >>,      \* kwargs (safety_retry) of each invocation
     outcomes |-> << >>,     \* what each invocation did
     slept |-> << >>,        \* each time.sleep: base delay and jitter
     ret |-> "pending"]

\* Lines 40-60: the except clauses, once their class expressions resolve.
\* Yields the locals after the matching handler.
handle_exception(c, kind) ==
    CASE kind = "ResourceExhausted" ->
            [c EXCEPT !.retry_delay = 60, !.last_exception = kind]
      [] kind = "InternalServer" ->
            [c EXCEPT !.last_exception = kind]
      [] kind = "InvalidArgSafety" ->
            [c EXCEPT !.safety_retry = TRUE, !.last_exception = kind]
      [] kind = "InvalidArgOther" ->
            [c EXCEPT !.failures = @ + 10, !.last_exception = kind]
      [] OTHER ->
            [c EXCEPT !.last_exception = kind]

\* Lines 65-78: give up, or sleep and double the delay.
give_up_or_sleep(d, jitter) ==
    IF d.failures >= d.max_consecutive_failures
    THEN [d EXCEPT !.pc = "returned", !.ret = "None"]
    ELSE [d EXCEPT !.slept = Append(@, [base |-> d.retry_delay, jitter |-> jitter]),
                   !.retry_delay = Min(d.retry_delay * 2, 60)]

\* Lines 62-78: count the failure, then give up or sleep.
after_failure(c, jitter) ==
    give_up_or_sleep([c EXCEPT !.failures = @ + 1], jitter)

\* Lines 38-60 for one outcome of the operation.  When the operation raises,
\* Python evaluates the class expression of the first except clause
\* (line 40); with custom_genai unbound that evaluation raises NameError,
\* which leaves the function.
invoked_once(e, out, jitter) ==
    IF out.kind = "ok"
    THEN [e EXCEPT !.pc = "returned", !.ret = out.value]
    ELSE IF ~custom_genai_defined
    THEN [e EXCEPT !.pc = "raised", !.ret = "NameError"]
    ELSE after_failure(handle_exception(e, out.kind), jitter)

\* One pass of the while body (lines 37-78).
retry_iteration(c, out, jitter) ==
    invoked_once([c EXCEPT !.invoked = Append(@, c.safety_retry),
                           !.outcomes = Append(@, out)],
                 out, jitter)

\* Lines 37 and 81: the loop test fails on entry.
retry_loop_exit(c) == [c EXCEPT !.pc = "returned", !.ret = "None"]

(***************************************************************************)
(* Text.  A text is a sequence of atoms, each atom a fixed string:          *)
(*   w "goat"   sp " "   nl "\n"   d "1"   col ":"   dot "."   lb "["      *)
(*   rb "]"   q (a double quote)   FENCE "```"   SEG "Segment"             *)
(*   IMG "Image"   GEN "generation"   NOTE "Note"   END "end"   ENDU "End" *)
(*   OF "of"   STORY "story"                                               *)
(* and segment, image, note, the lower-cased SEG, IMG and NOTE.  Every     *)
(* regular expression and string method of media/utils.py is modelled by   *)
(* what it does on the concatenation of those strings.                     *)
(***************************************************************************)
SpaceAtoms == {"sp", "nl"}                    \* \s
DigitAtoms == {"d"}                           \* \d
QuoteAtoms == {"q"}                           \* ["\']
NonAlnumAtoms == {"sp", "nl", "col", "dot", "lb", "rb", "q", "FENCE"}  \* [^a-zA-Z0-9]

\* len() of an atom's string.
AtomLen(a) ==
    CASE a \in {"sp", "nl", "d", "col", "dot", "lb", "rb", "q"} -> 1
      [] a = "OF" -> 2
      [] a \in {"END", "ENDU", "FENCE"} -> 3
      [] a \in {"w", "NOTE", "note"} -> 4
      [] a \in {"IMG", "image", "STORY"} -> 5
      [] a \in {"SEG", "segment"} -> 7
      [] a = "GEN" -> 10

\* str.lower() of an atom's string.
LowerAtom(a) ==
    CASE a = "ENDU" -> "END"
      [] a = "SEG" -> "segment"
      [] a = "IMG" -> "image"
      [] a = "NOTE" -> "note"
      [] OTHER -> a

Lower(t) == [i \in 1 .. Len(t) |-> LowerAtom(t[i])]

\* The first index >= i whose atom is outside A (inside A), Len(t)+1 if none.
SkipSet(t, i, A) ==
    LET S == {j \in i .. Len(t) : t[j] \notin A} IN
    IF S = {} THEN Len(t) + 1 ELSE CHOOSE j \in S : \A k \in S : j <= k

FindSet(t, i, A) ==
    LET S == {j \in i .. Len(t) : t[j] \in A} IN
    IF S = {} THEN Len(t) + 1 ELSE CHOOSE j \in S : \A k \in S : j <= k

MaxOf(S) == CHOOSE j \in S : \A k \in S : k <= j

\* str.strip()
Strip(t) ==
    LET a == SkipSet(t, 1, SpaceAtoms)
        N == {j \in 1 .. Len(t) : t[j] \notin SpaceAtoms} IN
    IF N = {} THEN << >> ELSE SubSeq(t, a, MaxOf(N))

\* len(str.split()): the maximal runs of non-whitespace.
WordCount(t) ==
    Cardinality({i \in 1 .. Len(t) :
                    /\ t[i] \notin SpaceAtoms
                    /\ (i = 1 \/ t[i - 1] \in SpaceAtoms)})

StartsWith(t, prefix) ==
    /\ Len(t) >= Len(prefix)
    /\ SubSeq(t, 1, Len(prefix)) = prefix

\* needle in t
Contains(t, needle) ==
    \E i \in 1 .. (Len(t) - Len(needle) + 1) :
        SubSeq(t, i, i + Len(needle) - 1) = needle

\* len() of a text, in characters.
CharLen(t) ==
    LET Count(n) == Cardinality({i \in 1 .. Len(t) : AtomLen(t[i]) = n}) IN
    Count(1) + 2 * Count(2) + 3 * Count(3) + 4 * Count(4) + 5 * Count(5)
        + 7 * Count(7) + 10 * Count(10)

(***************************************************************************)
(* The regular expressions of collect_complete_story.  Each Match operator *)
(* gives, for a match attempt that starts at index i, the index just after *)
(* the match, or 0 when the expression does not match there.               *)
(***************************************************************************)

\* Pattern 1 (line 26):
\*   (?:Segment|SEGMENT|Scene|SCENE)\s+\d+(?:\s*[-:][^a-zA-Z0-9]*\s*[^"\']+)?
\* The optional label group is greedy: [^a-zA-Z0-9]* takes the longest run it
\* can and gives atoms back until [^"\']+ finds one atom to start on, and
\* [^"\']+ then runs to the next quote or to the end of the text.
MatchSegmentLabel(t, i) ==
    IF t[i] # "SEG" THEN 0
    ELSE
    LET j1 == SkipSet(t, i + 1, SpaceAtoms)
        j2 == SkipSet(t, j1, DigitAtoms) IN
    IF j1 = i + 1 \/ j2 = j1 THEN 0
    ELSE
    LET k == SkipSet(t, j2, SpaceAtoms) IN
    IF k > Len(t) \/ t[k] # "col" THEN j2
    ELSE
    LET p == k + 1
        xmax == SkipSet(t, p, NonAlnumAtoms)
        Starts(xs) == {s \in xs .. SkipSet(t, xs, SpaceAtoms) :
                          s <= Len(t) /\ t[s] \notin QuoteAtoms}
        X == {xs \in p .. xmax : Starts(xs) # {}} IN
    IF X = {} THEN j2
    ELSE FindSet(t, MaxOf(Starts(MaxOf(X))), QuoteAtoms)

\* Pattern 2 (line 29):  (?:^|\n)\s*(?:\d+[\.\)\]]|\[\d+\])\s+
\* No MULTILINE flag: ^ matches at the start of the text only.
NumberedFrom(t, c) ==
    LET k == SkipSet(t, c, SpaceAtoms)
        j == SkipSet(t, k, DigitAtoms)
        m == IF j > k /\ j <= Len(t) /\ t[j] \in {"dot", "rb"} THEN j + 1
             ELSE IF k <= Len(t) /\ t[k] = "lb"
             THEN LET j3 == SkipSet(t, k + 1, DigitAtoms) IN
                  IF j3 > k + 1 /\ j3 <= Len(t) /\ t[j3] = "rb" THEN j3 + 1 ELSE 0
             ELSE 0
        e == IF m = 0 THEN 0 ELSE SkipSet(t, m, SpaceAtoms) IN
    IF m = 0 \/ e = m THEN 0 ELSE e

MatchNumbered(t, i) ==
    LET atStart == IF i = 1 THEN NumberedFrom(t, 1) ELSE 0 IN
    IF atStart # 0 THEN atStart
    ELSE IF t[i] = "nl" THEN NumberedFrom(t, i + 1)
    ELSE 0

\* Pattern 3 (lines 32 and 74):  \[(?:Image|IMG|Picture|PIC)\s*\d+[^\]]*\]
MatchImageLabel(t, i) ==
    IF t[i] # "lb" \/ i + 1 > Len(t) \/ t[i + 1] # "IMG" THEN 0
    ELSE
    LET k == SkipSet(t, i + 2, SpaceAtoms)
        j == SkipSet(t, k, DigitAtoms)
        r == FindSet(t, j, {"rb"}) IN
    IF j = k \/ r > Len(t) THEN 0 ELSE r + 1

\* A variant of the paragraph separator that needs one newline only
\* (\n\s*): what C9 would face if the fallback split on line breaks.
MatchBlankLine_single_newline(t, i) ==
    IF t[i] # "nl" THEN 0 ELSE SkipSet(t, i + 1, SpaceAtoms)

\* Line 54:  \n\s*\n
MatchBlankLine(t, i) ==
    IF t[i] # "nl" THEN 0
    ELSE
    LET k == SkipSet(t, i + 1, SpaceAtoms)
        L == {j \in (i + 1) .. (k - 1) : t[j] = "nl"} IN
    IF L = {} THEN 0 ELSE MaxOf(L) + 1

\* Line 77:  \[(.*?)\]   (. does not match a newline)
MatchBracket(t, i) ==
    IF t[i] # "lb" THEN 0
    ELSE
    LET r == FindSet(t, i + 1, {"rb"})
        n == FindSet(t, i + 1, {"nl"}) IN
    IF r > Len(t) \/ n < r THEN 0 ELSE r + 1

MatchEnd(pattern, t, i) ==
    CASE pattern = "segment_label" -> MatchSegmentLabel(t, i)
      [] pattern = "numbered" -> MatchNumbered(t, i)
      [] pattern = "image_label" -> MatchImageLabel(t, i)
      [] pattern = "blank_line" -> MatchBlankLine(t, i)
      [] pattern = "bracket" -> MatchBracket(t, i)

\* re.split(pattern, t): the pieces between the leftmost non-overlapping
\* matches, empty pieces included.
MinOf(S) == CHOOSE j \in S : \A k \in S : j <= k

RECURSIVE SplitFrom(_, _, _)
SplitAt(pattern, t, ps, i, e) ==
    << SubSeq(t, ps, i - 1) >> \o SplitFrom(pattern, t, e)

SplitAtFirst(pattern, t, ps, i) == SplitAt(pattern, t, ps, i, MatchEnd(pattern, t, i))

SplitAmong(pattern, t, ps, M) ==
    IF M = {} THEN << SubSeq(t, ps, Len(t)) >>
    ELSE SplitAtFirst(pattern, t, ps, MinOf(M))

SplitFrom(pattern, t, ps) ==
    SplitAmong(pattern, t, ps,
               {i \in ps .. Len(t) : MatchEnd(pattern, t, i) # 0})

re_split(pattern, t) == SplitFrom(pattern, t, 1)

RECURSIVE Concat(_)
Concat(ss) == IF ss = << >> THEN << >> ELSE Head(ss) \o Concat(Tail(ss))

\* re.sub(pattern, '', t)
re_sub_empty(pattern, t) == Concat(re_split(pattern, t))

\* str.replace("```", "")
RemoveFences(t) == SelectSeq(t, LAMBDA a : a # "FENCE")

\* [s.strip() for s in pieces if s.strip()]   (lines 43 and 55)
StripNonEmpty(pieces) ==
    SelectSeq([i \in 1 .. Len(pieces) |-> Strip(pieces[i])],
              LAMBDA s : s # << >>)

(***************************************************************************)
(* collect_complete_story (media/utils.py, lines 7-97)                     *)
(***************************************************************************)
MinWords == 5            \* line 63
MinPieces == 3           \* line 46
ShortStory == 100        \* line 93

\* Lines 24-33, in list order.
segment_patterns == << "segment_label", "numbered", "image_label" >>

\* Lines 40-43: one pattern's split, stripped, without the empty pieces.
potential_segments(pattern, cleaned_text) ==
    StripNonEmpty(re_split(pattern, cleaned_text))

\* Lines 36-49: the for loop with its break.  tried logs the patterns the
\* loop has split with.
RECURSIVE try_patterns(_, _, _)
\* A variant of the acceptance test that is content with 2 pieces.
accept_or_next_two_pieces(cleaned_text, k, tried, ps) ==
    IF Len(ps) >= 2 THEN [segments |-> ps, tried |-> tried]
    ELSE try_patterns(cleaned_text, k + 1, tried)

accept_or_next(cleaned_text, k, tried, ps) ==
    IF Len(ps) >= MinPieces THEN [segments |-> ps, tried |-> tried]
    ELSE try_patterns(cleaned_text, k + 1, tried)

try_patterns(cleaned_text, k, tried) ==
    IF k > Len(segment_patterns) THEN [segments |-> << >>, tried |-> tried]
    ELSE accept_or_next(cleaned_text, k, Append(tried, segment_patterns[k]),
                        potential_segments(segment_patterns[k], cleaned_text))

\* Lines 52-55: paragraph splitting when the loop left segments empty.
paragraphs_unless(found, cleaned_text) ==
    IF found.segments = << >>
    THEN [segments |-> potential_segments("blank_line", cleaned_text),
          tried |-> Append(found.tried, "blank_line")]
    ELSE found

choose_segments(cleaned_text) ==
    paragraphs_unless(try_patterns(cleaned_text, 1, << >>), cleaned_text)

\* A variant of the filter that wants more than MinWords words.
skip_segment_six_words(segment) ==
    \/ WordCount(segment) < MinWords + 1
    \/ StartsWith(segment, << "IMG", "sp", "GEN", "col" >>)
    \/ StartsWith(segment, << "NOTE", "col" >>)
    \/ Contains(Lower(segment), << "END", "sp", "OF", "sp", "STORY" >>)
    \/ Contains(segment, << "FENCE" >>)

\* Lines 63-68: the segments the final loop skips.
skip_segment(segment) ==
    \/ WordCount(segment) < MinWords
    \/ StartsWith(segment, << "IMG", "sp", "GEN", "col" >>)
    \/ StartsWith(segment, << "NOTE", "col" >>)
    \/ Contains(Lower(segment), << "END", "sp", "OF", "sp", "STORY" >>)
    \/ Contains(segment, << "FENCE" >>)

\* Lines 71-77.
clean_segment(segment) ==
    re_sub_empty("bracket",
        re_sub_empty("image_label", Strip(RemoveFences(segment))))

\* Lines 59-81: the indices of the segments that are kept, in loop order.
RECURSIVE kept_indices(_, _)
kept_indices(segments, i) ==
    IF i > Len(segments) THEN << >>
    ELSE IF skip_segment(segments[i]) \/ clean_segment(segments[i]) = << >>
    THEN kept_indices(segments, i + 1)
    ELSE << i >> \o kept_indices(segments, i + 1)

\* '\n\n'.join(...)
RECURSIVE JoinBlank(_)
JoinBlank(ss) ==
    IF ss = << >> THEN << >>
    ELSE IF Len(ss) = 1 THEN Head(ss)
    ELSE Head(ss) \o << "nl", "nl" >> \o JoinBlank(Tail(ss))

\* A variant of the return that never falls back to the original text.
returned_value_always_joined(return_segments, cleaned_text, story_segments, full_story) ==
    IF return_segments THEN story_segments ELSE full_story

\* Lines 85-97: what the function returns.
returned_value(return_segments, cleaned_text, story_segments, full_story) ==
    IF return_segments THEN story_segments
    ELSE IF CharLen(full_story) < ShortStory /\ CharLen(cleaned_text) > ShortStory
    THEN cleaned_text
    ELSE full_story

\* The locals at the return and the value returned.
at_return(raw_text, return_segments, cleaned_text, chosen, origins, story_segments) ==
    [pc |-> "returned",
     raw_text |-> raw_text,
     return_segments |-> return_segments,
     cleaned_text |-> cleaned_text,
     tried |-> chosen.tried,
     segments |-> chosen.segments,
     origins |-> origins,
     story_segments |-> story_segments,
     ret |-> returned_value(return_segments, cleaned_text, story_segments,
                            JoinBlank(story_segments))]

\* Lines 59-81: the final loop over the chosen segments.
final_cleanup(raw_text, return_segments, cleaned_text, chosen, origins) ==
    at_return(raw_text, return_segments, cleaned_text, chosen, origins,
              [k \in 1 .. Len(origins) |-> clean_segment(chosen.segments[origins[k]])])

segment_and_clean(raw_text, return_segments, cleaned_text, chosen) ==
    final_cleanup(raw_text, return_segments, cleaned_text, chosen,
                  kept_indices(chosen.segments, 1))

split_and_clean(raw_text, return_segments, cleaned_text) ==
    segment_and_clean(raw_text, return_segments, cleaned_text,
                      choose_segments(cleaned_text))

\* The whole function (lines 7-97).
collect_complete_story(raw_text, return_segments) ==
    split_and_clean(raw_text, return_segments, Strip(raw_text))

(***************************************************************************)
(* Raw texts: up to MaxBlocks blocks, each a line or paragraph of model    *)
(* output.                                                                 *)
(***************************************************************************)
MaxBlocks == 3

Words4 == << "w", "sp", "w", "sp", "w", "sp", "w" >>
Words5 == Words4 \o << "sp", "w" >>

\* Paragraphs the final loop drops: Note: ..., Image generation: ...,
\* a fenced line, and one that says "End of story".
DroppedParagraphs ==
    << "nl", "nl", "NOTE", "col", "sp" >> \o Words5
    \o << "nl", "nl", "IMG", "sp", "GEN", "col", "sp" >> \o Words4
    \o << "nl", "nl", "FENCE", "sp" >> \o Words5
    \o << "nl", "nl" >> \o Words4 \o << "sp", "ENDU", "sp", "OF", "sp", "STORY" >>

\* Paragraphs with bracket annotations: [goat goat goat goat goat], then
\* [goat goat goat] [goat goat], then goat [goat] [goat / goat] goat goat goat goat.
BracketParagraphs ==
    << "nl", "nl", "lb" >> \o Words5 \o << "rb" >>
    \o << "nl", "nl", "lb", "w", "sp", "w", "sp", "w", "rb", "sp",
          "lb", "w", "sp", "w", "rb" >>
    \o << "nl", "nl", "w", "sp", "lb", "w", "rb", "sp",
          "lb", "w", "nl", "w", "rb", "sp" >> \o Words4

Blocks == {
    << "nl", "nl" >> \o Words5,                                   \* a paragraph
    << "nl", "nl" >> \o Words4,                                   \* a short paragraph
    << "nl", "SEG", "sp", "d", "nl" >> \o Words5,                 \* Segment 1 / text
    << "nl", "SEG", "sp", "d", "col", "sp", "w", "nl" >> \o Words5,  \* Segment 1: goat / text
    << "nl", "SEG", "sp", "d", "col", "sp", "q", "w", "q", "nl" >> \o Words5,
    << "nl", "d", "dot", "sp" >> \o Words5,                       \* 1. text
    << "nl", "lb", "IMG", "sp", "d", "col", "sp", "w", "rb", "nl" >> \o Words5,
    DroppedParagraphs,
    BracketParagraphs
}

BlockSeqs == UNION {[1 .. n -> Blocks] : n \in 1 .. MaxBlocks}

(***************************************************************************)
(* generate and retry_story_generation (ai/story_generator.py)             *)
(***************************************************************************)
max_retries == 5         \* line 39

\* What the content model sends back: k story paragraphs and n images.
ParagraphCounts == {0, MIN_STORY_SEGMENTS - 1, MIN_STORY_SEGMENTS}
ImageCounts == {0, MIN_STORY_SEGMENTS - 1, MIN_STORY_SEGMENTS}

RECURSIVE Paragraphs(_)
Paragraphs(k) ==
    IF k = 0 THEN << >> ELSE << "nl", "nl" >> \o Words5 \o Paragraphs(k - 1)

\* Line 237: story_text = collect_complete_story(raw_text), and line 59:
\* the segments retry_story_generation counts in that story_text.
story_text_of == [k \in ParagraphCounts |->
                     collect_complete_story(Paragraphs(k), FALSE).ret]
story_segments_of == [text \in {story_text_of[k] : k \in ParagraphCounts} |->
                         collect_complete_story(text, TRUE).ret]

\* One invocation of attempt_stream_generation or
\* attempt_non_stream_generation: it returns (raw_text, image_files) or raises.
ContentOutcomes ==
    [kind : {"ok"}, paragraphs : ParagraphCounts, images : ImageCounts]
      \cup {[kind |-> "raise", paragraphs |-> 0, images |-> 0]}

\* generate_prompt called once: a prompt, None (it catches its own errors,
\* lines 180-182) or an error from the client constructor (line 96).
PromptOutcomes == {"prompt", "None", "raise"}

\* How far the stages after the story text get.
LateOutcomes == {"audio_fails", "video_fails", "upload_fails", "all_ok"}

\* retry_api_call around one operation whose first invocation does `out`:
\* the wrapper returns that value, or leaves with NameError (its single
\* iteration decides, see retry_iteration).
wrapped(raises, value) ==
    retry_iteration(retry_entry(MAX_CONSECUTIVE_FAILURES, RETRY_DELAY),
                    IF raises THEN [kind |-> "Other", value |-> "-"]
                    ELSE [kind |-> "ok", value |-> value],
                    10)

Raised == [kind |-> "raise"]
ReturnedNone == [kind |-> "None"]

\* not raw_text or not image_files   (lines 218 and 228)
NoContent(content) == content.paragraphs = 0 \/ content.images = 0

File(dir, name, n) == [dir |-> dir, name |-> name, n |-> n]

\* Lines 255-260: the dictionary generate returns when audio synthesis fails.
result_without_audio(story_text, image_files, prompt, temp_dir) ==
    [kind |-> "dict",
     keys |-> {"story_text", "image_files", "prompt_text", "temp_dir"},
     story_text |-> story_text,
     image_files |-> image_files,
     prompt_text |-> prompt,
     temp_dir |-> temp_dir,
     audio_file |-> "absent",
     video_file |-> "absent",
     upload_result |-> "absent"]

\* Lines 268-274: ... when video assembly fails.
result_without_video(base) ==
    [base EXCEPT !.keys = @ \cup {"audio_file"},
                 !.audio_file = File(base.temp_dir, "story_audio", 0)]

\* A variant of the full dictionary that leaves the audio file out.
result_with_video_only(with_audio, late) ==
    [with_audio EXCEPT
        !.keys = (@ \ {"audio_file"})
                   \cup {"video_file", "thumbnail", "metadata", "upload_result"},
        !.video_file = File(with_audio.temp_dir, "story_video", 0),
        !.upload_result = IF late = "all_ok" THEN "uploaded" ELSE "None"]

\* Lines 296-306: the full dictionary; upload_result is None when the
\* upload failed.
result_with_video(with_audio, late) ==
    [with_audio EXCEPT
        !.keys = @ \cup {"video_file", "thumbnail", "metadata", "upload_result"},
        !.video_file = File(with_audio.temp_dir, "story_video", 0),
        !.upload_result = IF late = "all_ok" THEN "uploaded" ELSE "None"]

\* A variant in which a failed audio stage discards the result.
late_stages_discarding(base, late) ==
    IF late = "audio_fails" THEN ReturnedNone
    ELSE IF late = "video_fails" THEN result_without_video(base)
    ELSE result_with_video(result_without_video(base), late)

\* Lines 249-309: audio, video, metadata, thumbnail, upload.
late_stages(base, late) ==
    IF late = "audio_fails" THEN base
    ELSE IF late = "video_fails" THEN result_without_video(base)
    ELSE result_with_video(result_without_video(base), late)

\* f"{image_count:02d}" as character codes ('0' is 48).
RECURSIVE Decimal(_)
Decimal(n) ==
    IF n < 10 THEN << 48 + n >> ELSE Decimal(n \div 10) \o << 48 + (n % 10) >>

Format02d(n) == IF n < 10 THEN << 48 >> \o Decimal(n) ELSE Decimal(n)

\* What distinguishes the path of image n from the other images of the
\* directory: the digits and the "." (46) that follows them.
ImageName(n) == Format02d(n) \o << 46 >>

\* str < str
StrLess(a, b) ==
    \E i \in 1 .. Len(b) :
        /\ \A j \in 1 .. (i - 1) : j <= Len(a) /\ a[j] = b[j]
        /\ (i > Len(a) \/ a[i] < b[i])

\* Lines 143-155 and 187-195: the files attempt_*_generation saves, in the
\* order in which it appends them.
saved_images(temp_dir, images) == [i \in 1 .. images |-> File(temp_dir, "image", i)]

\* A variant of the sort that compares the sequence numbers.
sorted_by_number(image_files) ==
    SortSeq(image_files, LAMBDA f, g : f.n < g.n)

\* Line 233: sorted(image_files), the paths compared as strings.
sorted(image_files) ==
    SortSeq(image_files, LAMBDA f, g : StrLess(ImageName(f.n), ImageName(g.n)))

\* Lines 239-241: no story text extracted.
with_story_text(story_text, images, late, prompt, temp_dir) ==
    IF story_text = << >> THEN ReturnedNone
    ELSE late_stages(
             result_without_audio(
                 story_text,
                 sorted(saved_images(temp_dir, images)),
                 prompt, temp_dir),
             late)

\* Lines 227-309: from the content check to the returned dictionary.
finish_generate(content, late, prompt, temp_dir) ==
    IF NoContent(content) THEN ReturnedNone
    ELSE with_story_text(story_text_of[content.paragraphs], content.images,
                         late, prompt, temp_dir)

\* Lines 97-111: the prompt stage.  Yields "raise" when the wrapper leaves
\* with an error, else the prompt generate goes on with.
prompt_of(r) ==
    IF r.pc = "raised" THEN "raise"
    ELSE IF r.ret = "None" THEN "prompt_input"
    ELSE "generated"

prompt_stage(use_prompt_generator, prompt_out) ==
    IF ~use_prompt_generator THEN "prompt_input"
    ELSE prompt_of(wrapped(prompt_out = "raise", prompt_out))

\* Lines 212-225: streaming first, non-streaming when streaming came back
\* empty (line 220) or when anything in the try block raised (line 225).
\* Yields the content generate goes on with, or Raised.
content_of(r1, r2, r3) ==
    IF r1.pc = "raised"
    THEN IF r2.pc = "raised" THEN Raised ELSE r2.ret
    ELSE IF ~NoContent(r1.ret) THEN r1.ret
    ELSE IF r2.pc # "raised" THEN r2.ret
    ELSE IF r3.pc = "raised" THEN Raised ELSE r3.ret

content_stage(stream, nonstream, nonstream_again) ==
    content_of(wrapped(stream.kind = "raise", stream),
               wrapped(nonstream.kind = "raise", nonstream),
               wrapped(nonstream_again.kind = "raise", nonstream_again))

\* generate (lines 86-309) in the directory mkdtemp has just created.
generate_content(content, late, prompt, temp_dir) ==
    IF content = Raised THEN Raised
    ELSE finish_generate(content, late, prompt, temp_dir)

generate_with_prompt(prompt, env, temp_dir) ==
    IF prompt = "raise" THEN Raised
    ELSE generate_content(
             content_stage(env.stream, env.nonstream, env.nonstream_again),
             env.late, prompt, temp_dir)

generate(use_prompt_generator, env, temp_dir) ==
    generate_with_prompt(prompt_stage(use_prompt_generator, env.prompt),
                         env, temp_dir)

\* Lines 57-66: is this attempt's result good enough?
sufficient(result) ==
    /\ result.kind = "dict"
    /\ "story_text" \in result.keys
    /\ "image_files" \in result.keys
    /\ Len(story_segments_of[result.story_text]) >= MIN_STORY_SEGMENTS
    /\ Len(result.image_files) >= MIN_STORY_SEGMENTS

\* Lines 38-45.
story_entry(use_prompt_generator) ==
    [pc |-> "loop",
     use_prompt_generator |-> use_prompt_generator,
     retry_count |-> 0,
     success |-> FALSE,
     result |-> ReturnedNone,
     dirs |-> << >>,          \* the directories mkdtemp created, in order
     raised |-> FALSE,        \* the last generate left with an exception
     slept |-> 0,             \* time.sleep(5) calls
     uploads |-> 0,           \* videos generate put on the Drive (line 286)
     ret |-> "pending"]

\* Line 286 inside generate: did this call put a video on the Drive?
uploaded(got) ==
    IF got = Raised \/ got = ReturnedNone THEN FALSE
    ELSE got.upload_result = "uploaded"

\* Lines 56-77: what the loop body does with the outcome of generate.
\* result keeps its old value when generate raises.
after_generate(st, temp_dir, got, success) ==
    [st EXCEPT !.retry_count = @ + 1,
               !.uploads = IF uploaded(got) THEN @ + 1 ELSE @,
               !.dirs = Append(@, temp_dir),
               !.result = IF got = Raised THEN @ ELSE got,
               !.raised = (got = Raised),
               !.success = success,
               !.slept = IF ~success /\ st.retry_count + 1 < max_retries
                         THEN @ + 1 ELSE @]

judge(st, temp_dir, got) ==
    after_generate(st, temp_dir, got, got # Raised /\ sufficient(got))

\* A variant of the loop body in which every attempt works in the first
\* attempt's directory.
story_attempt_same_directory(st, env) ==
    judge(st, 1, generate(st.use_prompt_generator, env, 1))

\* One pass of the while body (lines 48-77): one call of generate, in the
\* directory mkdtemp creates for it (a name not used before).
story_attempt(st, env) ==
    judge(st, Len(st.dirs) + 1,
          generate(st.use_prompt_generator, env, Len(st.dirs) + 1))

\* A variant of the return that hands out whatever the last attempt left.
story_return_last_result(st) ==
    [st EXCEPT !.pc = "returned", !.ret = st.result]

\* Lines 79-84.
story_return(st) ==
    [st EXCEPT !.pc = "returned",
               !.ret = IF st.success THEN st.result ELSE ReturnedNone]

story_idle == [pc |-> "idle"]
seg_idle == [pc |-> "idle"]
video_idle == [pc |-> "idle"]
meta_idle == [pc |-> "idle"]
audio_idle == [pc |-> "idle"]
gen_idle == [pc |-> "idle"]
prompter_idle == [pc |-> "idle"]

InitRetry ==
    /\ \E budget \in BudgetSet, delay \in DelaySet :
          call = retry_entry(budget, delay)
    /\ story = story_idle
    /\ seg = seg_idle
    /\ video = video_idle
    /\ meta = meta_idle
    /\ audio = audio_idle
    /\ gen = gen_idle
    /\ prompter = prompter_idle

RetryIteration ==
    /\ call.pc = "loop"
    /\ call.failures < call.max_consecutive_failures
    /\ \E out \in Outcomes, jitter \in Jitters :
          call' = retry_iteration(call, out, jitter)
    /\ UNCHANGED <<story, seg, video, meta, audio, gen, prompter>>

RetryLoopExit ==
    /\ call.pc = "loop"
    /\ ~(call.failures < call.max_consecutive_failures)
    /\ call' = retry_loop_exit(call)
    /\ UNCHANGED <<story, seg, video, meta, audio, gen, prompter>>

NextRetry == RetryIteration \/ RetryLoopExit

SpecRetry == InitRetry /\ [][NextRetry]_vars

\* What the services do during one call of generate.  An outcome that the
\* call never asks for is fixed at a default, so that each behaviour of
\* generate is drawn once.
Unasked == [kind |-> "raise", paragraphs |-> 0, images |-> 0]

Asked(env) ==
    LET content == content_stage(env.stream, env.nonstream, env.nonstream_again)
        usable(c) == c.kind = "ok" /\ ~NoContent(c) IN
    /\ env.prompt = "raise" => env.stream = Unasked
    /\ (env.stream.kind = "raise" \/ usable(env.stream))
          => env.nonstream_again = Unasked
    /\ (env.prompt = "raise" \/ usable(env.stream)) => env.nonstream = Unasked
    /\ env.nonstream.kind = "ok" => env.nonstream_again = Unasked
    /\ (env.prompt = "raise" \/ content = Raised \/ NoContent(content))
          => env.late = "all_ok"

Envs ==
    {env \in [prompt : PromptOutcomes, stream : ContentOutcomes,
              nonstream : ContentOutcomes, nonstream_again : ContentOutcomes,
              late : LateOutcomes] : Asked(env)}

InitStory ==
    /\ \E use_prompt_generator \in BOOLEAN :
          story = story_entry(use_prompt_generator)
    /\ call = retry_entry(0, RETRY_DELAY)
    /\ seg = seg_idle
    /\ video = video_idle
    /\ meta = meta_idle
    /\ audio = audio_idle
    /\ gen = gen_idle
    /\ prompter = prompter_idle

StoryAttempt ==
    /\ story.pc = "loop"
    /\ ~story.success /\ story.retry_count < max_retries
    /\ \E env \in Envs : story' = story_attempt(story, env)
    /\ UNCHANGED <<call, seg, video, meta, audio, gen, prompter>>

StoryReturn ==
    /\ story.pc = "loop"
    /\ ~(~story.success /\ story.retry_count < max_retries)
    /\ story' = story_return(story)
    /\ UNCHANGED <<call, seg, video, meta, audio, gen, prompter>>

NextStory == StoryAttempt \/ StoryReturn

SpecStory == InitStory /\ [][NextStory]_vars

\* generate called once.  The content model may send many images.
MaxImages == 100

GenerateContentOutcomes ==
    ContentOutcomes
      \cup [kind : {"ok"}, paragraphs : ParagraphCounts, images : {MaxImages}]

GenerateEnvs ==
    {env \in [prompt : PromptOutcomes, stream : GenerateContentOutcomes,
              nonstream : GenerateContentOutcomes,
              nonstream_again : GenerateContentOutcomes,
              late : LateOutcomes] : Asked(env)}

gen_entry(use_prompt_generator) ==
    [pc |-> "called", use_prompt_generator |-> use_prompt_generator]

\* generate has returned `ret` (or left with an exception: Raised) in the
\* environment env.
gen_return(g, env, ret) ==
    [pc |-> "returned", use_prompt_generator |-> g.use_prompt_generator,
     env |-> env, ret |-> ret]

InitGenerate ==
    /\ \E use_prompt_generator \in BOOLEAN :
          gen = gen_entry(use_prompt_generator)
    /\ call = retry_entry(0, RETRY_DELAY)
    /\ story = story_idle
    /\ seg = seg_idle
    /\ video = video_idle
    /\ meta = meta_idle
    /\ audio = audio_idle
    /\ prompter = prompter_idle

Generate ==
    /\ gen.pc = "called"
    /\ \E env \in GenerateEnvs :
          /\ (~gen.use_prompt_generator => env.prompt = "prompt")
          /\ gen' = gen_return(gen, env,
                               generate(gen.use_prompt_generator, env, 1))
    /\ UNCHANGED <<call, story, seg, video, meta, audio, prompter>>

NextGenerate == Generate

SpecGenerate == InitGenerate /\ [][NextGenerate]_vars

InitSegment ==
    /\ \E bs \in BlockSeqs, return_segments \in BOOLEAN :
          seg = [pc |-> "entry", raw_text |-> Concat(bs),
                 return_segments |-> return_segments]
    /\ call = retry_entry(0, RETRY_DELAY)
    /\ story = story_idle
    /\ video = video_idle
    /\ meta = meta_idle
    /\ audio = audio_idle
    /\ gen = gen_idle
    /\ prompter = prompter_idle

CollectCompleteStory ==
    /\ seg.pc = "entry"
    /\ seg' = collect_complete_story(seg.raw_text, seg.return_segments)
    /\ UNCHANGED <<call, story, video, meta, audio, gen, prompter>>

NextSegment == CollectCompleteStory

SpecSegment == InitSegment /\ [][NextSegment]_vars

\* generate's pass over the raw text (story_generator.py line 237) followed
\* by the pass of retry_story_generation over the story text (line 59).
counted_again(first, again) ==
    [pc |-> "counted",
     raw_text |-> first.raw_text,
     story_text |-> first.ret,
     first_segments |-> first.story_segments,
     story_segments |-> again.ret]

InitRecount ==
    /\ \E bs \in BlockSeqs :
          seg = [pc |-> "entry", raw_text |-> Concat(bs),
                 return_segments |-> FALSE]
    /\ call = retry_entry(0, RETRY_DELAY)
    /\ story = story_idle
    /\ video = video_idle
    /\ meta = meta_idle
    /\ audio = audio_idle
    /\ gen = gen_idle
    /\ prompter = prompter_idle

CountSegments ==
    /\ seg.pc = "returned"
    /\ ~seg.return_segments
    /\ seg' = counted_again(seg, collect_complete_story(seg.ret, TRUE))
    /\ UNCHANGED <<call, story, video, meta, audio, gen, prompter>>

NextRecount == CollectCompleteStory \/ CountSegments

SpecRecount == InitRecount /\ [][NextRecount]_vars

(***************************************************************************)
(* Floating-point numbers (Python float).  A number is m * 2^e with a      *)
(* significand m of SignificandBits bits; the model keeps the rounding of  *)
(* the binary64 format with a shorter significand.                         *)
(***************************************************************************)
SignificandBits == 5

RECURSIVE Exp2(_)
Exp2(k) == IF k = 0 THEN 1 ELSE 2 * Exp2(k - 1)

FloatZero == [m |-> 0, e |-> 0]

\* A variant of the rounding that drops the remainder.
RoundHalfEven_truncating(num, n) == num \div n

\* The quotient num / n rounded to the nearest integer, ties to even.
RoundHalfEven(num, n) ==
    IF 2 * (num % n) > n \/ (2 * (num % n) = n /\ (num \div n) % 2 = 1)
    THEN (num \div n) + 1
    ELSE num \div n

\* A rounded significand that reached 2^SignificandBits moves up one exponent.
Normalized(m, e) ==
    IF m = Exp2(SignificandBits) THEN [m |-> m \div 2, e |-> e + 1]
    ELSE [m |-> m, e |-> e]

\* The least shift k that gives the quotient m * 2^k / n a full significand.
QuotientShift(m, n) ==
    CHOOSE k \in 0 .. SignificandBits :
        /\ (m * Exp2(k)) \div n >= Exp2(SignificandBits - 1)
        /\ \A j \in 0 .. (k - 1) :
              (m * Exp2(j)) \div n < Exp2(SignificandBits - 1)

FloatDivShifted(x, n, k) ==
    Normalized(RoundHalfEven(x.m * Exp2(k), n), x.e - k)

\* x / n for a float x and a positive integer n, correctly rounded
\* (video.py line 84).
FloatDiv(x, n) ==
    IF x.m = 0 THEN FloatZero ELSE FloatDivShifted(x, n, QuotientShift(x.m, n))

(***************************************************************************)
(* create_video_from_images_and_audio (media/video.py, lines 15-211)       *)
(***************************************************************************)
MaxVideoImages == 6

\* What ffprobe can report for the narration: 0, and the floats from 1.0 up
\* to just below 8.0.
Durations ==
    {FloatZero} \cup
    [m : Exp2(SignificandBits - 1) .. (Exp2(SignificandBits) - 1),
     e : {1 - SignificandBits, 2 - SignificandBits, 3 - SignificandBits}]

\* subprocess.run either fails to start the program (it raises) or reports
\* the exit status; a negative status is a kill by a signal.
Launches ==
    [exited : {TRUE}, returncode : {0, 1, -9}]
      \cup {[exited |-> FALSE, returncode |-> 0]}

\* ffprobe for the audio (lines 71-80) and the writing of the filter script
\* (lines 90-104).
Probes ==
    [ok : {TRUE}, duration : Durations, script_ok : BOOLEAN]
      \cup {[ok |-> FALSE, duration |-> FloatZero, script_ok |-> FALSE]}

video_entry(image_count, has_audio) ==
    [pc |-> "entry",
     image_count |-> image_count,       \* len(image_files)
     has_audio |-> has_audio,           \* audio_file is not None / empty
     resized_images |-> << >>,
     audio_duration |-> FloatZero,
     total_images |-> 0,
     time_per_image |-> FloatZero,
     display_times |-> << >>,           \* -t and trim=duration of every image
     runs |-> << >>,                    \* the ffmpeg commands run, in order
     ret |-> "pending"]

video_return(v, value) == [v EXCEPT !.pc = "returned", !.ret = value]

\* A variant of the resizing that puts the images it could not resize after
\* the resized ones.
video_start_unresized_last(v, makedirs_ok, unresized) ==
    IF v.image_count = 0 \/ ~v.has_audio THEN video_return(v, "None")
    ELSE IF ~makedirs_ok THEN video_return(v, "None")
    ELSE [v EXCEPT !.pc = "probe",
                   !.resized_images =
                       SelectSeq([i \in 1 .. v.image_count |->
                                     [image |-> i, resized |-> i \notin unresized]],
                                 LAMBDA r : r.resized)
                       \o SelectSeq([i \in 1 .. v.image_count |->
                                        [image |-> i, resized |-> i \notin unresized]],
                                    LAMBDA r : ~r.resized)]

\* Lines 29-66: the argument check and the resizing; an image that cannot
\* be resized is used as it is (lines 57-60); an error of makedirs reaches
\* the handler at line 209.
video_start(v, makedirs_ok, unresized) ==
    IF v.image_count = 0 \/ ~v.has_audio THEN video_return(v, "None")
    ELSE IF ~makedirs_ok THEN video_return(v, "None")
    ELSE [v EXCEPT !.pc = "probe",
                   !.resized_images =
                       [i \in 1 .. v.image_count |->
                           [image |-> i, resized |-> i \notin unresized]]]

\* Lines 83-104 with the duration ffprobe reported.
video_timing(v, duration, time_per_image, script_ok) ==
    IF ~script_ok
    THEN video_return([v EXCEPT !.audio_duration = duration,
                                !.total_images = Len(v.resized_images),
                                !.time_per_image = time_per_image], "None")
    ELSE [v EXCEPT !.pc = "primary",
                   !.audio_duration = duration,
                   !.total_images = Len(v.resized_images),
                   !.time_per_image = time_per_image,
                   !.display_times =
                       [i \in 1 .. Len(v.resized_images) |-> time_per_image]]

\* Lines 69-104: any error in there reaches the handler at line 205.
video_probe(v, probe) ==
    IF ~probe.ok THEN video_return(v, "None")
    ELSE video_timing(v, probe.duration,
                      FloatDiv(probe.duration, Len(v.resized_images)),
                      probe.script_ok)

\* A variant of the exit-status test that takes only a positive status for
\* a failure.
video_primary_positive_status(v, launch) ==
    IF ~launch.exited
    THEN video_return([v EXCEPT !.runs = Append(@, [cmd |-> "fade_filter",
                           exited |-> FALSE, returncode |-> launch.returncode])],
                      "None")
    ELSE [v EXCEPT !.pc = IF launch.returncode > 0 THEN "fallback" ELSE "info",
                   !.runs = Append(@, [cmd |-> "fade_filter", exited |-> TRUE,
                                       returncode |-> launch.returncode])]

\* Lines 106-141 and 163: the primary command with the fade filter script.
video_primary(v, launch) ==
    IF ~launch.exited
    THEN video_return([v EXCEPT !.runs = Append(@, [cmd |-> "fade_filter",
                           exited |-> FALSE, returncode |-> launch.returncode])],
                      "None")
    ELSE [v EXCEPT !.pc = IF launch.returncode = 0 THEN "info" ELSE "fallback",
                   !.runs = Append(@, [cmd |-> "fade_filter", exited |-> TRUE,
                                       returncode |-> launch.returncode])]

\* Lines 142-162: ffprobe on the produced video; an error in there reaches
\* the handler at line 205.
video_info(v, info_ok) ==
    video_return(v, IF info_ok THEN "output_video" ELSE "None")

\* Lines 164-203: the simple concat command.
video_fallback(v, launch) ==
    video_return([v EXCEPT !.runs = Append(@, [cmd |-> "simple_concat",
                               exited |-> launch.exited,
                               returncode |-> launch.returncode])],
                 IF launch.exited /\ launch.returncode = 0
                 THEN "output_video" ELSE "None")

InitVideo ==
    /\ \E image_count \in 0 .. MaxVideoImages, has_audio \in BOOLEAN :
          video = video_entry(image_count, has_audio)
    /\ call = retry_entry(0, RETRY_DELAY)
    /\ story = story_idle
    /\ seg = seg_idle
    /\ meta = meta_idle
    /\ audio = audio_idle
    /\ gen = gen_idle
    /\ prompter = prompter_idle

\* Which of n resize operations fail (lines 42-60): none, the first, the
\* last, every other one, all.
ResizeFailures(n) ==
    {{}, {1}, {n}, {i \in 1 .. n : i % 2 = 1}, 1 .. n}

VideoStart ==
    /\ video.pc = "entry"
    /\ \E makedirs_ok \in BOOLEAN, unresized \in ResizeFailures(video.image_count) :
          video' = video_start(video, makedirs_ok, unresized)
    /\ UNCHANGED <<call, story, seg, meta, audio, gen, prompter>>

VideoProbe ==
    /\ video.pc = "probe"
    /\ \E probe \in Probes : video' = video_probe(video, probe)
    /\ UNCHANGED <<call, story, seg, meta, audio, gen, prompter>>

VideoPrimary ==
    /\ video.pc = "primary"
    /\ \E launch \in Launches : video' = video_primary(video, launch)
    /\ UNCHANGED <<call, story, seg, meta, audio, gen, prompter>>

VideoInfo ==
    /\ video.pc = "info"
    /\ \E info_ok \in BOOLEAN : video' = video_info(video, info_ok)
    /\ UNCHANGED <<call, story, seg, meta, audio, gen, prompter>>

VideoFallback ==
    /\ video.pc = "fallback"
    /\ \E launch \in Launches : video' = video_fallback(video, launch)
    /\ UNCHANGED <<call, story, seg, meta, audio, gen, prompter>>

NextVideo ==
    VideoStart \/ VideoProbe \/ VideoPrimary \/ VideoInfo \/ VideoFallback

SpecVideo == InitVideo /\ [][NextVideo]_vars

(***************************************************************************)
(* default_seo_metadata and generate_seo_metadata (ai/seo.py)              *)
(*                                                                         *)
(* Prompts are texts over the atoms of the story texts and the words       *)
(*   ABOUT "about"  GOING "going"  ON "on"  AN "an"  ADVENTURE "adventure" *)
(*   IN "in"  A "a"  3D "3d"  PIP "Pip".                                   *)
(* The strings default_seo_metadata builds are sequences of pieces, a      *)
(* piece being the characters first..last of an atom, so that a slice can  *)
(* end inside a word.  The fixed parts of the templates are atoms too.     *)
(***************************************************************************)
SeoAtomLen(a) ==
    CASE a = "A" -> 1
      [] a \in {"ON", "AN", "IN", "3D"} -> 2
      [] a \in {"PIP", "ELLIPSIS"} -> 3              \* "Pip", "..."
      [] a = "T_IN" -> 4                             \* " in "
      [] a \in {"ABOUT", "GOING"} -> 5
      [] a \in {"ADVENTURE", "AN_ANIMAL"} -> 9       \* "an animal"
      [] a \in {"DATE_1", "DATE_2"} -> 10            \* %Y-%m-%d
      [] a = "AN_ADVENTURE" -> 12                    \* "an adventure"
      [] a = "T_ADVENTURE_OF" -> 13                  \* "Adventure of "
      [] a = "T_CHILDRENS_STORY" -> 19               \* " | Children's Story"
      [] a = "D_JOIN" -> 10                          \* "\n    Join "
      [] a = "D_ON_AN" -> 29                         \* " on an exciting adventure in "
      [] a = "D_BANG" -> 11                          \* "!\n    \n    "
      [] a = "D_BODY" -> 333                         \* "\n    \n    This animated ... Created: "
      [] a = "D_END" -> 5                            \* "\n    "
      [] a = "TEXT_300" -> 300                       \* 300 characters of a story
      [] OTHER -> AtomLen(a)

Piece(a) == [atom |-> a, first |-> 1, last |-> SeoAtomLen(a)]

Pieces(t) == [i \in 1 .. Len(t) |-> Piece(t[i])]

PieceLen(piece) == piece.last - piece.first + 1

\* len() of a string of pieces.
RECURSIVE PiecesLen(_)
PiecesLen(ps) ==
    IF ps = << >> THEN 0 ELSE PieceLen(Head(ps)) + PiecesLen(Tail(ps))

\* ps[:n]
RECURSIVE TakeChars(_, _)
TakeChars(ps, n) ==
    IF ps = << >> \/ n <= 0 THEN << >>
    ELSE IF PieceLen(Head(ps)) <= n
    THEN << Head(ps) >> \o TakeChars(Tail(ps), n - PieceLen(Head(ps)))
    ELSE << [Head(ps) EXCEPT !.last = Head(ps).first + n - 1] >>

\* \s+word from index c: the index after the word, 0 when there is no match.
AfterWordFrom(t, s, word) ==
    IF s <= Len(t) /\ t[s] = word THEN s + 1 ELSE 0

AfterWord(t, c, word) ==
    IF c >= 1 /\ c <= Len(t) /\ t[c] \in SpaceAtoms
    THEN AfterWordFrom(t, SkipSet(t, c, SpaceAtoms), word)
    ELSE 0

RECURSIVE AfterWords(_, _, _)
AfterWords(t, c, words) ==
    IF words = << >> \/ c = 0 THEN c
    ELSE AfterWords(t, AfterWord(t, c, Head(words)), Tail(words))

\* . does not match a newline.
NoNewline(t, b, c) == \A j \in b .. (c - 1) : t[j] # "nl"

\* (?:\s+in\s+a\s+3d|\.) at index c.
Terminator(t, c) ==
    \/ AfterWords(t, c, << "IN", "A", "3D" >>) # 0
    \/ (c <= Len(t) /\ t[c] = "dot")

\* A lazy group (.*?) that starts at b: the least end after which `rest`
\* matches, 0 when there is none.
LeastOrZero(E) == IF E = {} THEN 0 ELSE MinOf(E)

Group2End(t, b) ==
    LeastOrZero({c \in b .. (Len(t) + 1) : NoNewline(t, b, c) /\ Terminator(t, c)})

\* \s+(.*?): the greedy \s+ gives back whitespace only when no match is
\* found otherwise, so the group starts at the largest index that works.
Group2Starts(t, p) ==
    {b \in (p + 1) .. SkipSet(t, p, SpaceAtoms) : Group2End(t, b) # 0}

\* \s+going\s+on\s+an\s+adventure\s+in\s+(.*?)(?:...) at index c; p is the
\* index after "in".
SettingFollows(t, p) == p # 0 /\ Group2Starts(t, p) # {}

AfterAdventureIn(t, c) ==
    AfterWords(t, c, << "GOING", "ON", "AN", "ADVENTURE", "IN" >>)

Group1End(t, b) ==
    LeastOrZero({c \in b .. (Len(t) + 1) :
                    /\ NoNewline(t, b, c)
                    /\ SettingFollows(t, AfterAdventureIn(t, c))})

Group1Starts(t, p) ==
    {b \in (p + 1) .. SkipSet(t, p, SpaceAtoms) : Group1End(t, b) # 0}

\* The groups of the match whose first group is t[b..c-1].
GroupsFromSetting(t, b, c, b2) ==
    [found |-> TRUE,
     character |-> SubSeq(t, b, c - 1),
     setting |-> SubSeq(t, b2, Group2End(t, b2) - 1)]

GroupsFromEnd(t, b, c) ==
    GroupsFromSetting(t, b, c, MaxOf(Group2Starts(t, AfterAdventureIn(t, c))))

GroupsFromStart(t, b) == GroupsFromEnd(t, b, Group1End(t, b))

GroupsAt(t, i) == GroupsFromStart(t, MaxOf(Group1Starts(t, i + 1)))

\* re.search(r'about\s+(.*?)\s+going\s+on\s+an\s+adventure\s+in\s+(.*?)
\*            (?:\s+in\s+a\s+3d|\.)', prompt_text)     (lines 127-128)
char_setting_among(t, starts) ==
    IF starts = {} THEN [found |-> FALSE, character |-> << >>, setting |-> << >>]
    ELSE GroupsAt(t, MinOf(starts))

char_setting(prompt_text) ==
    char_setting_among(prompt_text,
        {i \in 1 .. Len(prompt_text) :
            prompt_text[i] = "ABOUT" /\ Group1Starts(prompt_text, i + 1) # {}})

\* Lines 130-135.
character_of(m) == IF m.found THEN Pieces(m.character) ELSE << Piece("AN_ANIMAL") >>
setting_of(m) == IF m.found THEN Pieces(m.setting) ELSE << Piece("AN_ADVENTURE") >>

TitleLimit == 60
PreviewLimit == 500

\* A variant of the title that is not cut.
title_of_uncut(character, setting) ==
    << Piece("T_ADVENTURE_OF") >> \o character \o << Piece("T_IN") >>
        \o setting \o << Piece("T_CHILDRENS_STORY") >>

\* Lines 141-142.
title_of(character, setting) ==
    TakeChars(<< Piece("T_ADVENTURE_OF") >> \o character \o << Piece("T_IN") >>
                  \o setting \o << Piece("T_CHILDRENS_STORY") >>,
              TitleLimit)

\* Line 145 (and line 53).
story_preview(text) ==
    IF PiecesLen(text) > PreviewLimit
    THEN TakeChars(text, PreviewLimit) \o << Piece("ELLIPSIS") >>
    ELSE text

\* Lines 146-156; timestamp is today's date (line 138).
description_of(character, setting, preview, timestamp) ==
    << Piece("D_JOIN") >> \o character \o << Piece("D_ON_AN") >> \o setting
        \o << Piece("D_BANG") >> \o preview \o << Piece("D_BODY") >>
        \o << Piece(timestamp), Piece("D_END") >>

\* Lines 159-175: the fixed tags are named by their position in the list.
tags_of(character, setting) ==
    << "tag_1", "tag_2", "tag_3", "tag_4", character, setting, "tag_7",
       "tag_8", "tag_9", "tag_10", "tag_11", "tag_12", "tag_13", "tag_14",
       "tag_15" >>

\* A variant that stamps the title with the date instead of cutting it.
metadata_from_dated_title(character, setting, text, timestamp) ==
    [kind |-> "dict",
     keys |-> {"title", "description", "tags"},
     title_type |-> "str",
     title |-> title_of(<< Piece(timestamp) >> \o character, setting),
     description |-> description_of(character, setting, story_preview(text),
                                    timestamp),
     tags |-> tags_of(character, setting)]

\* Lines 140-182.
metadata_from(character, setting, text, timestamp) ==
    [kind |-> "dict",
     keys |-> {"title", "description", "tags"},
     title_type |-> "str",
     title |-> title_of(character, setting),
     description |-> description_of(character, setting, story_preview(text),
                                    timestamp),
     tags |-> tags_of(character, setting)]

metadata_for(m, text, timestamp) ==
    metadata_from(character_of(m), setting_of(m), text, timestamp)

\* default_seo_metadata (lines 114-182) called on the date `today`.
default_seo_metadata(story_text, prompt_text, today) ==
    metadata_for(char_setting(prompt_text), Pieces(story_text), today)

\* What json.loads gives for the bodies the text model may answer with.
\* A value has a kind (dict, list, str, number, null), the keys of a dict or
\* the strings a list or str contains, and the title of a dict.
ModelTitle(n) == << [atom |-> "model_title", first |-> 1, last |-> n] >>

JsonValue(kind, keys, title_type, title) ==
    [kind |-> kind, keys |-> keys, title_type |-> title_type, title |-> title,
     description |-> << Piece("w") >>, tags |-> << "model_tag" >>]

RequiredKeys == {"title", "description", "tags"}

json_value(body) ==
    CASE body = "J_FULL" -> JsonValue("dict", RequiredKeys, "str", ModelTitle(40))
      [] body = "J_LONG_TITLE" -> JsonValue("dict", RequiredKeys, "str", ModelTitle(61))
      [] body = "J_NUMBER_TITLE" -> JsonValue("dict", RequiredKeys, "int", << >>)
      [] body = "J_NO_TAGS" ->
            JsonValue("dict", {"title", "description"}, "str", ModelTitle(40))
      [] body = "J_LIST_OF_KEYS" -> JsonValue("list", RequiredKeys, "absent", << >>)
      [] body = "J_STRING_WITH_KEYS" -> JsonValue("str", RequiredKeys, "absent", << >>)
      [] body = "J_NUMBER" -> JsonValue("number", {}, "absent", << >>)

JsonBodies ==
    {"J_FULL", "J_LONG_TITLE", "J_NUMBER_TITLE", "J_NO_TAGS",
     "J_LIST_OF_KEYS", "J_STRING_WITH_KEYS", "J_NUMBER"}

\* response.text: a body, bare or in a markdown fence, or prose.
ResponseTexts ==
    {<< b >> : b \in JsonBodies}
      \cup {<< "FENCE", "json", "nl", "J_FULL", "nl", "FENCE" >>,
            << "FENCE", "nl", "J_LONG_TITLE", "nl", "FENCE", "nl" >>,
            << "w", "sp", "J_FULL" >>}

\* Lines 86-92.
without_fence(json_str) ==
    IF StartsWith(json_str, << "FENCE", "json" >>)
    THEN Strip(RemoveFences(SelectSeq(
             [i \in 1 .. Len(json_str) |->
                 IF json_str[i] = "json" /\ i > 1 /\ json_str[i - 1] = "FENCE"
                 THEN "FENCE" ELSE json_str[i]],
             LAMBDA a : TRUE)))
    ELSE IF StartsWith(json_str, << "FENCE" >>)
    THEN Strip(RemoveFences(json_str))
    ELSE json_str

\* json.loads: surrounding whitespace is allowed, anything else beside the
\* value is a JSONDecodeError.
json_loads(json_str) ==
    IF Len(Strip(json_str)) = 1 /\ Strip(json_str)[1] \in JsonBodies
    THEN json_value(Strip(json_str)[1])
    ELSE JsonValue("JSONDecodeError", {}, "absent", << >>)

\* The client constructor raises (line 31), the request raises (lines
\* 80-86), or the model answers with a text.
SeoOutcomes ==
    {[client |-> "raise", text |-> << >>],
     [client |-> "ok", text |-> << "raise" >>]}
      \cup [client : {"ok"}, text : ResponseTexts]

\* Lines 96-106 and 107-109: `key in metadata` raises TypeError for a
\* number or null, which the handler at line 107 catches.
validated(metadata, fallback) ==
    IF metadata.kind \in {"JSONDecodeError", "number", "null"} THEN fallback
    ELSE IF ~(RequiredKeys \subseteq metadata.keys) THEN fallback
    ELSE metadata

\* generate_seo_metadata (lines 15-112) on the date `today`.
generate_seo_metadata(story_text, prompt_text, outcome, today) ==
    IF outcome.client = "raise" \/ outcome.text = << "raise" >>
    THEN default_seo_metadata(story_text, prompt_text, today)
    ELSE validated(json_loads(without_fence(Strip(outcome.text))),
                   default_seo_metadata(story_text, prompt_text, today))

MaxPromptParts == 3

PromptParts == {
    << "ABOUT", "sp", "PIP", "sp", "GOING", "sp", "ON", "sp", "AN", "sp",
       "ADVENTURE", "sp", "IN", "sp" >>,
    << "ABOUT", "sp", "sp", "GOING", "sp", "ON", "sp", "AN", "sp", "ADVENTURE",
       "sp", "IN", "sp", "sp" >>,
    << "A", "sp", "w", "sp", "w", "sp", "w", "sp", "w", "sp", "w", "sp", "w",
       "sp", "w", "sp", "w" >>,
    << "sp", "IN", "sp", "A", "sp", "3D", "sp", "w" >>,
    << "dot" >>,
    << "nl" >>
}

Prompts == {<< >>} \cup {Concat(ps) : ps \in UNION {[1 .. n -> PromptParts] : n \in 1 .. MaxPromptParts}}

\* Story texts: none, one paragraph, and one of more than 500 characters.
SeoStories == {<< >>, Words5, << "TEXT_300", "sp", "TEXT_300" >>}

Dates == {"DATE_1", "DATE_2"}

meta_entry(story_text, prompt_text) ==
    [pc |-> "ready", story_text |-> story_text, prompt_text |-> prompt_text,
     calls |-> << >>]

InitSeo ==
    /\ \E story_text \in SeoStories, prompt_text \in Prompts :
          meta = meta_entry(story_text, prompt_text)
    /\ call = retry_entry(0, RETRY_DELAY)
    /\ story = story_idle
    /\ seg = seg_idle
    /\ video = video_idle
    /\ audio = audio_idle
    /\ gen = gen_idle
    /\ prompter = prompter_idle

\* default_seo_metadata called, at most twice, with the same arguments.
DefaultSeoMetadata ==
    /\ meta.pc = "ready"
    /\ Len(meta.calls) < 2
    /\ \A i \in 1 .. Len(meta.calls) : meta.calls[i].fn = "default_seo_metadata"
    /\ \E today \in Dates :
          meta' = [meta EXCEPT !.calls = Append(@,
                      [fn |-> "default_seo_metadata",
                       outcome |-> [client |-> "none", text |-> << >>],
                       today |-> today,
                       ret |-> default_seo_metadata(meta.story_text,
                                                    meta.prompt_text, today)])]
    /\ UNCHANGED <<call, story, seg, video, audio, gen, prompter>>

GenerateSeoMetadata ==
    /\ meta.pc = "ready"
    /\ Len(meta.calls) = 0
    /\ \E outcome \in SeoOutcomes, today \in Dates :
          meta' = [meta EXCEPT !.calls = Append(@,
                      [fn |-> "generate_seo_metadata",
                       outcome |-> outcome,
                       today |-> today,
                       ret |-> generate_seo_metadata(meta.story_text,
                                  meta.prompt_text, outcome, today)])]
    /\ UNCHANGED <<call, story, seg, video, audio, gen, prompter>>

NextSeo == DefaultSeoMetadata \/ GenerateSeoMetadata

SpecSeo == InitSeo /\ [][NextSeo]_vars

(***************************************************************************)
(* generate_audio_from_text (media/audio.py, lines 19-117)                 *)
(*                                                                         *)
(* Audio data is a sequence of stretches: the speech of a paragraph, named *)
(* by the paragraph's number, or a silence, each with its sample count.    *)
(***************************************************************************)
MaxParagraphs == 3

\* Story texts: paragraphs of words, a single word, or white space only,
\* separated by blank lines.
AudioBlocks == {Words5, << "w" >>, << "sp" >>}

AudioTexts ==
    {JoinBlank(bs) : bs \in UNION {[1 .. n -> AudioBlocks] : n \in 0 .. MaxParagraphs}}

\* What synthesis does for one paragraph: audio chunks, no chunk at all, or
\* an exception (from the pipeline or from writing the segment file).
SynthOutcomes == {"chunks", "no_chunks", "raise"}

Speech(i, samples) == [kind |-> "speech", paragraph |-> i, samples |-> samples]

\* Line 98: np.zeros(int(0.5 * SAMPLE_RATE))
silence == [kind |-> "silence", paragraph |-> 0, samples |-> (5 * SAMPLE_RATE) \div 10]

\* Lines 41-42.
audio_paragraphs(story_text) == StripNonEmpty(re_split("blank_line", story_text))

audio_entry(story_text) ==
    [pc |-> "start", story_text |-> story_text, paragraphs |-> << >>,
     synthesized |-> << >>, audio_segments |-> << >>, read_back |-> << >>,
     combined_data |-> << >>, ret |-> "pending"]

\* Lines 115-117, and the returns at lines 79, 95 and 113.
audio_return(a, ret) == [a EXCEPT !.pc = "returned", !.ret = ret]

\* Lines 32-45: the pipeline, the directory, the paragraphs.
audio_start(a, ok) ==
    IF ~ok THEN audio_return(a, "None")
    ELSE [a EXCEPT !.pc = "synthesize",
                   !.paragraphs = audio_paragraphs(a.story_text)]

\* Lines 47-75: one pass of the for loop, for paragraph Len(synthesized)+1.
\* A segment file holds the speech of its paragraph.
audio_synthesize(a, outcome) ==
    [a EXCEPT
        !.synthesized = Append(@, outcome),
        !.audio_segments =
            IF outcome = "raise" THEN @
            ELSE Append(@, Speech(Len(a.synthesized) + 1,
                                  IF outcome = "chunks" THEN SAMPLE_RATE ELSE 0))]

\* A variant of the interleaving that puts a silence after every segment.
combined_data_trailing_silence(all_audio_data) ==
    [i \in 1 .. (2 * Len(all_audio_data)) |->
        IF i % 2 = 1 THEN all_audio_data[(i + 1) \div 2] ELSE silence]

\* Lines 99-107.
combined_data(all_audio_data) ==
    [i \in 1 .. (2 * Len(all_audio_data) - 1) |->
        IF i % 2 = 1 THEN all_audio_data[(i + 1) \div 2] ELSE silence]

\* Lines 86-91: the segments sf.read can read; readable[i] tells whether
\* the i-th segment file can be read.
all_audio_data(audio_segments, readable) ==
    SelectSeq(audio_segments,
              LAMBDA seg_data :
                  \E i \in 1 .. Len(audio_segments) :
                      audio_segments[i] = seg_data /\ readable[i])

\* Lines 93-113.
audio_write(a, all_data, write_ok) ==
    IF all_data = << >> THEN audio_return([a EXCEPT !.read_back = all_data], "None")
    ELSE IF ~write_ok
    THEN audio_return([a EXCEPT !.read_back = all_data], "None")
    ELSE audio_return([a EXCEPT !.read_back = all_data,
                                !.combined_data = combined_data(all_data)],
                      "combined_audio_path")

\* Lines 77-113, after the loop.
audio_combine(a, readable, write_ok) ==
    IF a.audio_segments = << >> THEN audio_return(a, "None")
    ELSE audio_write(a, all_audio_data(a.audio_segments, readable), write_ok)

InitAudio ==
    /\ \E story_text \in AudioTexts : audio = audio_entry(story_text)
    /\ call = retry_entry(0, RETRY_DELAY)
    /\ story = story_idle
    /\ seg = seg_idle
    /\ video = video_idle
    /\ meta = meta_idle
    /\ gen = gen_idle
    /\ prompter = prompter_idle

AudioStart ==
    /\ audio.pc = "start"
    /\ \E ok \in BOOLEAN : audio' = audio_start(audio, ok)
    /\ UNCHANGED <<call, story, seg, video, meta, gen, prompter>>

AudioSynthesize ==
    /\ audio.pc = "synthesize"
    /\ Len(audio.synthesized) < Len(audio.paragraphs)
    /\ \E outcome \in SynthOutcomes : audio' = audio_synthesize(audio, outcome)
    /\ UNCHANGED <<call, story, seg, video, meta, gen, prompter>>

AudioCombine ==
    /\ audio.pc = "synthesize"
    /\ Len(audio.synthesized) = Len(audio.paragraphs)
    /\ \E readable \in [1 .. Len(audio.audio_segments) -> BOOLEAN],
          write_ok \in BOOLEAN :
          audio' = audio_combine(audio, readable, write_ok)
    /\ UNCHANGED <<call, story, seg, video, meta, gen, prompter>>

NextAudio == AudioStart \/ AudioSynthesize \/ AudioCombine

SpecAudio == InitAudio /\ [][NextAudio]_vars

(***************************************************************************)
(* generate_prompt (ai/prompt_generator.py, lines 83-182)                  *)
(*                                                                         *)
(* The model's output is a text over the atoms of the story texts and      *)
(*   GENERATE_A "Generate a"   STORY_ABOUT "story about"                   *)
(*   GOING_ADV "going on an adventure in"   IN_A "in a"                    *)
(*   HIGHLY "highly detailed 3d"   STYLE "cartoon animation style"         *)
(*   SIXTEEN "16"   NINE "9"   IMAGES_IN "Generate images in"              *)
(*   ASPECT "aspect ratio suitable for a widescreen YouTube video."        *)
(* so that a phrase the code looks for can be interrupted by a fence.      *)
(***************************************************************************)
story_about == << "GENERATE_A", "sp", "STORY_ABOUT" >>
animation_style == << "HIGHLY", "sp", "STYLE" >>
sixteen_nine == << "SIXTEEN", "col", "NINE" >>

\* t has the phrase at index i.
PhraseAt(t, phrase, i) ==
    /\ i >= 1
    /\ i + Len(phrase) - 1 <= Len(t)
    /\ SubSeq(t, i, i + Len(phrase) - 1) = phrase

\* phrase in t
ContainsPhrase(t, phrase) == \E i \in 1 .. Len(t) : PhraseAt(t, phrase, i)

\* t.find(phrase), an index from 1, 0 when absent.
FindPhrase(t, phrase) ==
    LeastOrZero({i \in 1 .. Len(t) : PhraseAt(t, phrase, i)})

\* Line 153-154: re.search(r'Generate a story about (.*?) going on an
\* adventure in (.*?) in a highly detailed 3d cartoon animation style', t)
\* finds a match: group 1 is t[i+4 .. j-1] and group 2 is t[j+3 .. k-1].
prompt_pattern_matches(t) ==
    \E i \in 1 .. Len(t), j \in 1 .. Len(t), k \in 1 .. Len(t) :
        /\ PhraseAt(t, story_about \o << "sp" >>, i)
        /\ j >= i + 4
        /\ NoNewline(t, i + 4, j)
        /\ PhraseAt(t, << "sp", "GOING_ADV", "sp" >>, j)
        /\ k >= j + 3
        /\ NoNewline(t, j + 3, k)
        /\ PhraseAt(t, << "sp", "IN_A", "sp" >> \o animation_style, k)

aspect_sentence ==
    << "sp", "IMAGES_IN", "sp" >> \o sixteen_nine \o << "sp", "ASPECT" >>

\* A variant that never appends the aspect-ratio sentence.
with_aspect_ratio_unchanged(clean_prompt) == clean_prompt

\* Lines 162-163 and 175-176.
with_aspect_ratio(clean_prompt) ==
    IF ContainsPhrase(clean_prompt, sixteen_nine) THEN clean_prompt
    ELSE clean_prompt \o aspect_sentence

\* Lines 171-174.
with_story_about(clean_prompt) ==
    IF ContainsPhrase(clean_prompt, story_about) THEN clean_prompt
    ELSE story_about \o << "sp" >> \o clean_prompt

with_animation_style(clean_prompt) ==
    IF ContainsPhrase(clean_prompt, animation_style) THEN clean_prompt
    ELSE clean_prompt \o << "sp", "IN_A", "sp" >> \o animation_style

\* Lines 151-178: the repair of the model's output.
clean_prompt_of(generated_prompt) ==
    IF prompt_pattern_matches(generated_prompt)
    THEN with_aspect_ratio(
             SubSeq(generated_prompt, FindPhrase(generated_prompt, story_about),
                    Len(generated_prompt)))
    ELSE with_aspect_ratio(with_animation_style(with_story_about(
             Strip(RemoveFences(generated_prompt)))))

MaxOutputParts == 4

OutputParts == {
    << "GENERATE_A", "sp", "STORY_ABOUT", "sp", "w" >>,
    << "sp", "GOING_ADV", "sp", "w" >>,
    << "sp", "IN_A", "sp", "HIGHLY", "sp", "STYLE" >>,
    << "sp", "SIXTEEN", "col", "NINE" >>,
    << "GENERATE_A", "sp", "FENCE", "STORY_ABOUT", "sp" >>,
    << "FENCE" >>,
    << "nl" >>
}

\* What the text model answers: a text, or the request raises (lines
\* 136-148; response.text that is None makes line 154 raise).
ModelOutputs ==
    {<< >>} \cup {Concat(ps) : ps \in UNION {[1 .. n -> OutputParts] : n \in 1 .. MaxOutputParts}}

prompter_entry(generated_prompt) ==
    [pc |-> "requested", generated_prompt |-> generated_prompt,
     ret |-> << "pending" >>]

\* Lines 133-182: the returned prompt, or None (line 182) when anything in
\* the try block raised.
generate_prompt(p, raises) ==
    IF raises THEN [p EXCEPT !.pc = "returned", !.ret = << "None" >>]
    ELSE [p EXCEPT !.pc = "returned", !.ret = clean_prompt_of(p.generated_prompt)]

InitPrompt ==
    /\ \E generated_prompt \in ModelOutputs :
          prompter = prompter_entry(generated_prompt)
    /\ call = retry_entry(0, RETRY_DELAY)
    /\ story = story_idle
    /\ seg = seg_idle
    /\ video = video_idle
    /\ meta = meta_idle
    /\ audio = audio_idle
    /\ gen = gen_idle

GeneratePrompt ==
    /\ prompter.pc = "requested"
    /\ \E raises \in BOOLEAN : prompter' = generate_prompt(prompter, raises)
    /\ UNCHANGED <<call, story, seg, video, meta, audio, gen>>

NextPrompt == GeneratePrompt

SpecPrompt == InitPrompt /\ [][NextPrompt]_vars

(***************************************************************************)
(* Claims about retry_api_call                                             *)
(***************************************************************************)
RetryFinished == call.pc \in {"returned", "raised"}

\* The failures an outcome log amounts to as the documentation counts them:
\* 11 for an invalid-argument error that is not about safety, 1 for every
\* other error.
RECURSIVE FailureWeight(_)
FailureWeight(outs) ==
    IF outs = << >> THEN 0
    ELSE FailureWeight(Tail(outs)) +
         (CASE Head(outs).kind = "ok" -> 0
            [] Head(outs).kind = "InvalidArgOther" -> 11
            [] OTHER -> 1)

AllOutcomesIn(kinds) ==
    \A i \in 1 .. Len(call.outcomes) : call.outcomes[i].kind \in kinds

RECURSIVE Pow2(_)
Pow2(n) == IF n = 0 THEN 1 ELSE 2 * Pow2(n - 1)

\* C1: with an operation that raises on every invocation, each error worth
\* one failure, and a budget N >= 1, the wrapper ends having invoked the
\* operation exactly N times and returns None.
C1_ExhaustsBudgetThenNone ==
    ( /\ RetryFinished
      /\ call.max_consecutive_failures >= 1
      /\ AllOutcomesIn(ErrorKinds \ {"InvalidArgOther"}) )
    => ( /\ call.ret = "None"
         /\ call.pc = "returned"
         /\ Len(call.invoked) = call.max_consecutive_failures )

\* C2: the wrapper returns the value of the first invocation that does not
\* raise, whatever number of failures below the budget precede it: a
\* successful invocation is the last one and its value is returned, and the
\* wrapper does not end while the failures are below the budget unless its
\* last invocation succeeded.
C2_ReturnsFirstSuccess ==
    /\ \A i \in 1 .. Len(call.outcomes) :
          call.outcomes[i].kind = "ok"
          => ( /\ i = Len(call.outcomes)
               /\ call.pc = "returned"
               /\ call.ret = call.outcomes[i].value
               /\ Len(call.slept) <= i - 1 )
    /\ ( RetryFinished /\ FailureWeight(call.outcomes) < call.max_consecutive_failures )
       => ( /\ Len(call.outcomes) >= 1
            /\ call.outcomes[Len(call.outcomes)].kind = "ok" )

\* C3: an operation that always fails with an invalid-argument error that
\* does not mention safety is invoked ceil(N / 11) times under budget N, and
\* then None is returned.
C3_InvalidArgumentWeighs11 ==
    ( /\ RetryFinished
      /\ call.max_consecutive_failures >= 1
      /\ AllOutcomesIn({"InvalidArgOther"}) )
    => ( /\ call.ret = "None"
         /\ call.pc = "returned"
         /\ Len(call.invoked) = (call.max_consecutive_failures + 10) \div 11 )

\* C4: the wrapper sleeps exactly once after each failure that leaves the
\* budget unexhausted (so only between two invocations); absent quota errors
\* the k-th sleep has base min(retry_delay * 2^(k-1), 60), every jitter lies
\* in [0.5, 1.5], and with the default retry_delay no sleep exceeds 90 s.
SleepsExpected ==
    Cardinality({i \in 1 .. Len(call.outcomes) :
                    /\ call.outcomes[i].kind # "ok"
                    /\ FailureWeight(SubSeq(call.outcomes, 1, i))
                          < call.max_consecutive_failures})

FailedInvocations ==
    Cardinality({i \in 1 .. Len(call.outcomes) : call.outcomes[i].kind # "ok"})

\* C21: every failed iteration increases the failure counter by at least 1,
\* so under budget N the operation is invoked at most max(N, 0) times and at
\* most N-1 sleeps occur; with N <= 0 the operation is never invoked and
\* None is returned.
C21_FailuresCountedCallsBounded ==
    /\ call.failures >= FailedInvocations
    /\ Len(call.invoked) <= call.max_consecutive_failures \/ Len(call.invoked) = 0
    /\ call.max_consecutive_failures >= 1
          => Len(call.slept) <= call.max_consecutive_failures - 1
    /\ (RetryFinished /\ call.max_consecutive_failures <= 0)
          => (call.invoked = << >> /\ call.pc = "returned" /\ call.ret = "None")

\* C30: after an invalid-argument error that mentions safety, which counts
\* as one failure, the operation is invoked again (the budget allowing) and
\* every later invocation carries safety_retry=True; a later invocation that
\* succeeds has its result returned.
C30_SafetyErrorRetriedWithFlag ==
    \A i \in 1 .. Len(call.outcomes) :
        ( /\ RetryFinished
          /\ call.outcomes[i].kind = "InvalidArgSafety"
          /\ FailureWeight(SubSeq(call.outcomes, 1, i)) < call.max_consecutive_failures )
        => ( /\ call.failures >= 1
             /\ Len(call.invoked) > i
             /\ \A j \in (i + 1) .. Len(call.invoked) : call.invoked[j]
             /\ call.outcomes[Len(call.outcomes)].kind = "ok"
                   => call.ret = call.outcomes[Len(call.outcomes)].value )

(***************************************************************************)
(* Claims about retry_story_generation                                     *)
(***************************************************************************)
StoryRunning == story.pc # "idle"

\* A result that has story_text and image_files, at least 6 story segments
\* and at least 6 image files.
Qualifies(r) ==
    /\ r.kind = "dict"
    /\ {"story_text", "image_files"} \subseteq r.keys
    /\ Len(collect_complete_story(r.story_text, TRUE).ret) >= 6
    /\ Len(r.image_files) >= 6

\* The last attempt returned a result and that result qualifies.
LastQualifies == ~story.raised /\ Qualifies(story.result)

AttemptsAndReturn ==
    StoryRunning =>
        /\ story.retry_count <= 5
        /\ Len(story.dirs) = story.retry_count
        /\ story.success <=> LastQualifies
        /\ story.pc = "returned" =>
              IF LastQualifies
              THEN story.ret = story.result
              ELSE story.ret = ReturnedNone /\ story.retry_count = 5

AttemptOnlyAfterFailure ==
    (story.pc = "loop" /\ story'.pc = "loop" /\ story' # story)
    => ( /\ ~story.success
         /\ story.retry_count < 5
         /\ story'.retry_count = story.retry_count + 1 )

\* C5: generate is invoked at most 5 times; success says in every state that
\* the last attempt qualified, and an attempt is made only while it is false
\* (no attempt has qualified: story_text and image_files present, at least 6
\* segments, at least 6 images), so the loop stops at the first qualifying
\* attempt and returns its result; when the function returns without a
\* qualifying attempt, it has made all 5 attempts and returns None, whatever
\* partial result an attempt left behind.
C5_StopsAtFirstQualifyingAttempt ==
    [](AttemptsAndReturn) /\ [][AttemptOnlyAfterFailure]_vars

\* None is returned after five attempts although the last one produced a
\* dictionary with story text, 5 images and an audio file.
C5_Witness ==
    /\ story.pc = "returned"
    /\ story.ret = ReturnedNone
    /\ story.retry_count = 5
    /\ ~story.raised
    /\ story.result.kind = "dict"
    /\ Len(story.result.image_files) = 5
    /\ "audio_file" \in story.result.keys

\* The files a result names.
FilesOf(r) ==
    {r.image_files[i] : i \in 1 .. Len(r.image_files)}
    \cup (IF "audio_file" \in r.keys THEN {r.audio_file} ELSE {})
    \cup (IF "video_file" \in r.keys THEN {r.video_file} ELSE {})

\* Everything the result names lies in the directory of the last attempt.
FromLastAttempt(r) ==
    /\ r.temp_dir = story.dirs[Len(story.dirs)]
    /\ \A f \in FilesOf(r) : f.dir = story.dirs[Len(story.dirs)]

\* C6: the attempts work in pairwise different directories, and the result
\* of an attempt, the finally returned one included, names only the
\* directory and files of that attempt, none of an earlier attempt.
C6_FreshDirectoryEachAttempt ==
    StoryRunning =>
        /\ \A i, j \in 1 .. Len(story.dirs) :
              i # j => story.dirs[i] # story.dirs[j]
        /\ (~story.raised /\ story.result.kind = "dict")
              => FromLastAttempt(story.result)
        /\ (story.pc = "returned" /\ story.success)
              => ( /\ FromLastAttempt(story.ret)
                   /\ \A i \in 1 .. (Len(story.dirs) - 1), f \in FilesOf(story.ret) :
                         f.dir # story.dirs[i] /\ story.ret.temp_dir # story.dirs[i] )

\* The third attempt is the one returned, with images, audio and video.
C6_Witness ==
    /\ story.pc = "returned"
    /\ story.success
    /\ Len(story.dirs) = 3
    /\ "video_file" \in story.ret.keys
    /\ Len(story.ret.image_files) >= 6

\* C26: one run uploads at most one video, and only in the attempt whose
\* result is returned: an attempt judged insufficient has uploaded nothing.
C26_UploadOnlyInReturnedAttempt ==
    StoryRunning =>
        /\ story.uploads <= 1
        /\ story.uploads = 1 => story.success

StoryReturnedResult == story.pc = "returned" /\ story.ret # ReturnedNone

\* C27 as stated: a result that retry_story_generation returns, unless it
\* is None, contains a video_file.
C27_ResultHasVideoFile ==
    StoryReturnedResult => "video_file" \in story.ret.keys

\* C27, amended: a returned result has story_text and at least 6 image
\* files; a video_file is in it only together with the audio_file it was
\* assembled from, and a result without video_file is one of the partial
\* dictionaries of a failed audio or video stage (nothing uploaded).
C27_VideoFileOnlyAfterAudio ==
    StoryReturnedResult =>
        /\ {"story_text", "image_files"} \subseteq story.ret.keys
        /\ Len(story.ret.image_files) >= MIN_STORY_SEGMENTS
        /\ "video_file" \in story.ret.keys
              => ( /\ "audio_file" \in story.ret.keys
                   /\ story.ret.video_file.dir = story.ret.temp_dir )
        /\ "video_file" \notin story.ret.keys
              => ( /\ story.ret.video_file = "absent"
                   /\ story.ret.upload_result = "absent" )

\* An attempt whose video assembly failed is accepted and returned.
C27_Witness ==
    /\ StoryReturnedResult
    /\ story.success
    /\ "audio_file" \in story.ret.keys
    /\ "video_file" \notin story.ret.keys

(***************************************************************************)
(* Claims about collect_complete_story                                     *)
(***************************************************************************)
SegReturned == seg.pc = "returned"

PieceCount(pattern) == Len(potential_segments(pattern, seg.cleaned_text))

\* The patterns, by position in the list, whose split has enough pieces.
Qualifying == {k \in 1 .. Len(segment_patterns) :
                  PieceCount(segment_patterns[k]) >= 3}

FirstQualifying == CHOOSE k \in Qualifying : \A j \in Qualifying : k <= j

\* Some segment marker (a match of one of the three patterns) occurs in t.
HasMarker(t) ==
    \E k \in 1 .. Len(segment_patterns), i \in 1 .. Len(t) :
        MatchEnd(segment_patterns[k], t, i) # 0

\* A piece the final loop has no reason to drop.
StoryLike(s) ==
    /\ WordCount(s) >= 5
    /\ ~StartsWith(s, << "IMG", "sp", "GEN", "col" >>)
    /\ ~StartsWith(s, << "NOTE", "col" >>)
    /\ ~Contains(Lower(s), << "END", "sp", "OF", "sp", "STORY" >>)
    /\ ~Contains(s, << "FENCE" >>)

\* C7: the patterns are tried in list order and the split of the first one
\* with at least 3 non-empty pieces is used, later ones are not tried;
\* blank-line splitting is used exactly when no pattern has 3 pieces.
C7_FirstQualifyingPattern ==
    SegReturned =>
        IF Qualifying = {}
        THEN /\ seg.tried = segment_patterns \o << "blank_line" >>
             /\ seg.segments = potential_segments("blank_line", seg.cleaned_text)
        ELSE /\ seg.tried = SubSeq(segment_patterns, 1, FirstQualifying)
             /\ seg.segments =
                   potential_segments(segment_patterns[FirstQualifying],
                                      seg.cleaned_text)

\* Pattern 1 matched somewhere but gave fewer than 3 pieces, and the
\* numbered pattern was used.
C7_Witness ==
    /\ SegReturned
    /\ seg.tried = << "segment_label", "numbered" >>
    /\ Len(re_split("segment_label", seg.cleaned_text)) >= 2
    /\ Len(seg.segments) >= 3

\* C8 as stated: raw text with a segment marker gives, in return_segments
\* mode, at least three segments, each non-empty.
C8_MarkersGiveThreeSegments ==
    ( SegReturned /\ seg.return_segments /\ HasMarker(seg.raw_text) )
    => ( /\ Len(seg.ret) >= 3
         /\ \A i \in 1 .. Len(seg.ret) : seg.ret[i] # << >> )

\* C8 amended: when the first pattern with at least three non-empty pieces
\* has at least three pieces that are story-like and not emptied by cleaning,
\* return_segments mode returns exactly those pieces' cleanings: at least
\* three segments, each a non-empty string.
GoodPieces(pieces) ==
    {i \in 1 .. Len(pieces) :
        StoryLike(pieces[i]) /\ clean_segment(pieces[i]) # << >>}

C8_ThreeGoodPiecesGiveThreeSegments ==
    ( /\ SegReturned
      /\ seg.return_segments
      /\ Qualifying # {}
      /\ Cardinality(GoodPieces(potential_segments(
             segment_patterns[FirstQualifying], seg.cleaned_text))) >= 3 )
    => ( /\ Len(seg.ret) >= 3
         /\ Len(seg.ret) = Cardinality(GoodPieces(seg.segments))
         /\ \A i \in 1 .. Len(seg.ret) : seg.ret[i] # << >> )

C8_Witness ==
    /\ SegReturned
    /\ seg.return_segments
    /\ Qualifying # {}
    /\ seg.tried = << "segment_label", "numbered" >>
    /\ Cardinality(GoodPieces(seg.segments)) >= 3
    /\ Len(seg.ret) = 3

\* The non-empty paragraphs of t: an atom starts one when it is the first
\* non-blank atom of t or the whitespace before it holds two newlines.
ParagraphStarts(t) ==
    {i \in 1 .. Len(t) :
        /\ t[i] \notin SpaceAtoms
        /\ (i = 1 \/ t[i - 1] \in SpaceAtoms)
        /\ LET before == {j \in 1 .. (i - 1) : t[j] \notin SpaceAtoms}
               prev == IF before = {} THEN 0 ELSE MaxOf(before) IN
           \/ prev = 0
           \/ Cardinality({j \in (prev + 1) .. (i - 1) : t[j] = "nl"}) >= 2}

ParagraphCount(t) == Cardinality(ParagraphStarts(t))

\* C9 as stated: without markers the function falls back to paragraph
\* splitting and returns no fewer segments than there are paragraphs.
C9_NoFewerThanParagraphs ==
    ( SegReturned /\ ~HasMarker(seg.raw_text) )
    => ( /\ seg.tried[Len(seg.tried)] = "blank_line"
         /\ Len(seg.story_segments) >= ParagraphCount(seg.raw_text) )

\* C9 amended: without markers the function falls back to paragraph
\* splitting, its candidate pieces are the non-empty paragraphs, and it
\* returns one segment for each paragraph that is story-like and not emptied
\* by cleaning: never more segments than paragraphs.
C9_OnePerStoryLikeParagraph ==
    ( SegReturned /\ ~HasMarker(seg.raw_text) )
    => ( /\ seg.tried[Len(seg.tried)] = "blank_line"
         /\ Len(seg.segments) = ParagraphCount(seg.raw_text)
         /\ Len(seg.story_segments) <= ParagraphCount(seg.raw_text)
         /\ Len(seg.story_segments) = Cardinality(GoodPieces(seg.segments)) )

\* Three paragraphs without markers, one of them dropped.
C9_Witness ==
    /\ SegReturned
    /\ ~HasMarker(seg.raw_text)
    /\ ParagraphCount(seg.raw_text) = 3
    /\ Len(seg.story_segments) = 2

\* A bracketed annotation: an opening bracket with a closing one after it.
HasBracketAnnotation(s) ==
    \E i \in 1 .. Len(s), j \in 1 .. Len(s) :
        i < j /\ s[i] = "lb" /\ s[j] = "rb"

\* C10: the returned segments are, in order, the cleanings of exactly the
\* candidate pieces that are story-like and not emptied by cleaning, and no
\* returned segment contains a bracketed annotation.
C10_FilteredInOrderNoBrackets ==
    SegReturned =>
        /\ \A k \in 1 .. Len(seg.origins) :
              /\ seg.origins[k] \in 1 .. Len(seg.segments)
              /\ k > 1 => seg.origins[k - 1] < seg.origins[k]
              /\ StoryLike(seg.segments[seg.origins[k]])
              /\ seg.story_segments[k] = clean_segment(seg.segments[seg.origins[k]])
        /\ Len(seg.story_segments) = Len(seg.origins)
        /\ \A i \in GoodPieces(seg.segments) :
              \E k \in 1 .. Len(seg.origins) : seg.origins[k] = i
        /\ \A k \in 1 .. Len(seg.story_segments) :
              ~HasBracketAnnotation(seg.story_segments[k])

\* The segments return_segments mode gives for the same raw text, joined by
\* blank lines.
JoinedSegments == JoinBlank(collect_complete_story(seg.raw_text, TRUE).ret)

\* C11: in full-text mode the function returns the segments of
\* return_segments mode joined by a blank line, except that it returns the
\* stripped raw text, uncleaned, when the joined text has fewer than 100
\* characters and the stripped raw text more than 100.
C11_JoinedOrOriginalText ==
    ( SegReturned /\ ~seg.return_segments )
    => seg.ret = IF /\ CharLen(JoinedSegments) < 100
                    /\ CharLen(Strip(seg.raw_text)) > 100
                 THEN Strip(seg.raw_text)
                 ELSE JoinedSegments

\* Some segments survive, their joined text is short, the raw text is long:
\* the raw text comes back, brackets and notes included.
C11_Witness ==
    /\ SegReturned
    /\ ~seg.return_segments
    /\ seg.story_segments # << >>
    /\ CharLen(JoinedSegments) < 100
    /\ CharLen(Strip(seg.raw_text)) > 100
    /\ seg.ret = Strip(seg.raw_text)
    /\ seg.ret # JoinedSegments

\* C29: every returned segment still has at least 5 words, hence a
\* character that is not whitespace, after cleaning.
C29_CleanedSegmentsHaveFiveWords ==
    SegReturned =>
        \A k \in 1 .. Len(seg.story_segments) :
            WordCount(seg.story_segments[k]) >= MinWords

\* C28: counting the segments of the story text again gives the number of
\* segments the first pass extracted and joined into it.
C28_RecountEqualsFirstCount ==
    seg.pc = "counted" => Len(seg.story_segments) = Len(seg.first_segments)

(***************************************************************************)
(* Claims about create_video_from_images_and_audio                         *)
(***************************************************************************)
VideoReturned == video.pc = "returned"

ExitedNonZero(run) == run.exited /\ run.returncode # 0

\* C12: the commands run are the primary alone or the primary followed by
\* the simple concat command; the fallback follows exactly a primary that
\* exited with a non-zero status (at the return it has then been run), and
\* when both exited non-zero the function returns None.
C12_FallbackIffPrimaryFailed ==
    video.pc # "idle" =>
        /\ Len(video.runs) <= 2
        /\ Len(video.runs) >= 1 => video.runs[1].cmd = "fade_filter"
        /\ Len(video.runs) = 2
              => ( /\ video.runs[2].cmd = "simple_concat"
                   /\ ExitedNonZero(video.runs[1]) )
        /\ ( /\ VideoReturned
             /\ Len(video.runs) >= 1
             /\ ExitedNonZero(video.runs[1]) )
              => Len(video.runs) = 2
        /\ ( /\ VideoReturned
             /\ Len(video.runs) = 2
             /\ ExitedNonZero(video.runs[2]) )
              => video.ret = "None"

\* The primary was killed by a signal, the fallback exited with status 1.
C12_Witness ==
    /\ VideoReturned
    /\ Len(video.runs) = 2
    /\ video.runs[1].returncode = -9
    /\ video.runs[2].exited
    /\ video.runs[2].returncode = 1
    /\ video.ret = "None"

PrimarySucceeded ==
    /\ Len(video.runs) >= 1
    /\ video.runs[1].exited
    /\ video.runs[1].returncode = 0

\* n * x - y for floats x and y, in units of 2^lo.
ScaledDifference(n, x, y, lo) ==
    n * x.m * Exp2(x.e - lo) - y.m * Exp2(y.e - lo)

\* image_count * time_per_image - audio_duration, in units of the smaller
\* of the two exponents.
DurationError ==
    ScaledDifference(video.image_count, video.time_per_image,
                     video.audio_duration,
                     Min(video.time_per_image.e, video.audio_duration.e))

\* One unit in the last place of time_per_image, in the same units.
DisplayTimeUlp ==
    Exp2(video.time_per_image.e
         - Min(video.time_per_image.e, video.audio_duration.e))

SameDisplayTimeForAll ==
    /\ Len(video.display_times) = video.image_count
    /\ \A i \in 1 .. Len(video.display_times) :
          video.display_times[i] = video.time_per_image

\* C13 as stated: when the primary command succeeds every image has the
\* same display time and image_count times that time equals the audio
\* duration.
C13_DisplayTimesAddUpExactly ==
    PrimarySucceeded => ( SameDisplayTimeForAll /\ DurationError = 0 )

\* C13 amended: when the primary command succeeds every image has the same
\* display time, the float nearest to audio_duration / image_count, so
\* image_count times it differs from the audio duration by at most
\* image_count times half a unit in the last place of the display time, and
\* by nothing when image_count is a power of two.
C13_DisplayTimesAddUpToRounding ==
    PrimarySucceeded =>
        /\ SameDisplayTimeForAll
        /\ 2 * DurationError <= video.image_count * DisplayTimeUlp
        /\ - 2 * DurationError <= video.image_count * DisplayTimeUlp
        /\ video.image_count \in {1, 2, 4} => DurationError = 0
        /\ video.time_per_image.m \in
              {0} \cup (Exp2(SignificandBits - 1) .. (Exp2(SignificandBits) - 1))

\* Three images for one second of audio: the video is produced and the
\* display times do not add up to the audio duration.
C13_Witness ==
    /\ VideoReturned
    /\ video.ret = "output_video"
    /\ PrimarySucceeded
    /\ video.image_count = 3
    /\ video.audio_duration = [m |-> Exp2(SignificandBits - 1),
                               e |-> 1 - SignificandBits]
    /\ DurationError # 0

(***************************************************************************)
(* Claims about default_seo_metadata and generate_seo_metadata             *)
(***************************************************************************)
CallsOf(fn) == {i \in 1 .. Len(meta.calls) : meta.calls[i].fn = fn}

LastPiece(ps) == ps[Len(ps)]

\* C14: default_seo_metadata returns, for every story text and every prompt
\* text, whether or not the prompt matches the character/setting pattern, a
\* record whose title has at most 60 characters and whose tag list is not
\* empty.
C14_DefaultTitleAtMost60TagsNonEmpty ==
    \A i \in CallsOf("default_seo_metadata") :
        /\ meta.calls[i].ret.kind = "dict"
        /\ meta.calls[i].ret.title_type = "str"
        /\ PiecesLen(meta.calls[i].ret.title) <= 60
        /\ Len(meta.calls[i].ret.tags) > 0

\* The prompt matches the pattern with a character and a setting so long
\* that the title is cut inside a word, at exactly 60 characters.
C14_Witness ==
    /\ CallsOf("default_seo_metadata") # {}
    /\ char_setting(meta.prompt_text).found
    /\ PiecesLen(meta.calls[1].ret.title) = 60
    /\ LastPiece(meta.calls[1].ret.title).last
          < SeoAtomLen(LastPiece(meta.calls[1].ret.title).atom)
    /\ LastPiece(meta.calls[1].ret.title).atom # "T_CHILDRENS_STORY"

\* C15: generate_seo_metadata always returns a mapping with the three keys
\* title, description and tags, whose title is a string of bounded length
\* (at most 60 characters, the bound the request states and the fallback
\* enforces).
C15_AlwaysMappingWithBoundedTitle ==
    \A i \in CallsOf("generate_seo_metadata") :
        /\ meta.calls[i].ret.kind = "dict"
        /\ RequiredKeys \subseteq meta.calls[i].ret.keys
        /\ meta.calls[i].ret.title_type = "str"
        /\ PiecesLen(meta.calls[i].ret.title) <= TitleLimit

\* C16 as stated: two calls of default_seo_metadata with the same story text
\* and the same prompt text return equal records, whatever else differs
\* between the two calls.
C16_EqualRecords ==
    Len(meta.calls) = 2 => meta.calls[1].ret = meta.calls[2].ret

\* The description without its "Created:" date.
Undated(description) ==
    SelectSeq(description, LAMBDA piece : piece.atom \notin Dates)

\* C16 amended: two calls of default_seo_metadata with the same story text
\* and the same prompt text return the same title and the same tags; their
\* descriptions are equal exactly when the two calls are made on the same
\* date, and otherwise differ only in the date of the "Created:" line.
C16_EqualUpToCreationDate ==
    Len(meta.calls) = 2 =>
        /\ meta.calls[1].ret.title = meta.calls[2].ret.title
        /\ meta.calls[1].ret.tags = meta.calls[2].ret.tags
        /\ meta.calls[1].ret.keys = meta.calls[2].ret.keys
        /\ Undated(meta.calls[1].ret.description)
              = Undated(meta.calls[2].ret.description)
        /\ (meta.calls[1].ret.description = meta.calls[2].ret.description)
              <=> (meta.calls[1].today = meta.calls[2].today)

\* Two calls with the same arguments on different dates, for a prompt that
\* matches the pattern.
C16_Witness ==
    /\ Len(meta.calls) = 2
    /\ meta.calls[1].today # meta.calls[2].today
    /\ char_setting(meta.prompt_text).found
    /\ meta.calls[1].ret # meta.calls[2].ret

(***************************************************************************)
(* Claims about generate                                                   *)
(***************************************************************************)
GenReturned == gen.pc = "returned"

PromptStagePassed ==
    prompt_stage(gen.use_prompt_generator, gen.env.prompt) # "raise"

FailedPath(c) == c.kind = "raise" \/ NoContent(c)

\* The non-streaming call whose outcome counts: the one at line 225 when
\* the one at line 220 raised.
LastNonStream ==
    IF gen.env.stream.kind = "ok" /\ gen.env.nonstream.kind = "raise"
    THEN gen.env.nonstream_again
    ELSE gen.env.nonstream

BothPathsFailed ==
    /\ PromptStagePassed
    /\ FailedPath(gen.env.stream)
    /\ FailedPath(LastNonStream)

\* C17: when content generation fails in both the streaming and the
\* non-streaming path, generate returns None to its caller instead of
\* raising.
C17_BothPathsFailReturnsNone ==
    (GenReturned /\ BothPathsFailed) => gen.ret = ReturnedNone

\* C18: for any number of generated images, the image list generate passes
\* on (the sorted file names image_NN.png) holds the images in the order in
\* which they were generated.
C18_SortedIsGenerationOrder ==
    (GenReturned /\ gen.ret.kind = "dict") =>
        gen.ret.image_files = saved_images(1, Len(gen.ret.image_files))

\* The content generate went on with, and whether it reached the stages
\* after the story text.
ContentUsed ==
    content_stage(gen.env.stream, gen.env.nonstream, gen.env.nonstream_again)

LateStagesReached ==
    /\ GenReturned
    /\ PromptStagePassed
    /\ ContentUsed # Raised
    /\ ~NoContent(ContentUsed)
    /\ story_text_of[ContentUsed.paragraphs] # << >>

KeepsStoryAndImages ==
    /\ gen.ret.kind = "dict"
    /\ {"story_text", "image_files"} \subseteq gen.ret.keys
    /\ gen.ret.story_text = story_text_of[ContentUsed.paragraphs]
    /\ Len(gen.ret.image_files) = ContentUsed.images
    /\ \A i \in 1 .. ContentUsed.images :
          \E k \in 1 .. Len(gen.ret.image_files) :
              gen.ret.image_files[k] = File(1, "image", i)

\* C20: a failure in a late stage does not discard the earlier artifacts of
\* the attempt.  If audio synthesis fails generate returns a result with
\* story_text and image_files but no audio_file or video_file; if video
\* assembly fails, the result with audio_file but no video_file; if the
\* upload fails, the full result with video_file set and upload_result None.
C20_LateFailureKeepsEarlierArtifacts ==
    LateStagesReached =>
        /\ KeepsStoryAndImages
        /\ gen.env.late = "audio_fails" =>
              /\ "audio_file" \notin gen.ret.keys
              /\ "video_file" \notin gen.ret.keys
        /\ gen.env.late = "video_fails" =>
              /\ "audio_file" \in gen.ret.keys
              /\ gen.ret.audio_file = File(1, "story_audio", 0)
              /\ "video_file" \notin gen.ret.keys
        /\ gen.env.late = "upload_fails" =>
              /\ {"audio_file", "video_file", "upload_result"} \subseteq gen.ret.keys
              /\ gen.ret.video_file = File(1, "story_video", 0)
              /\ gen.ret.upload_result = "None"

\* Video assembly fails after six paragraphs and six images were generated
\* and narrated.
C20_Witness ==
    /\ LateStagesReached
    /\ gen.env.late = "video_fails"
    /\ ContentUsed.images = MIN_STORY_SEGMENTS
    /\ "audio_file" \in gen.ret.keys
    /\ "video_file" \notin gen.ret.keys

(***************************************************************************)
(* Claims about generate_audio_from_text                                   *)
(***************************************************************************)
AudioReturned == audio.pc = "returned"

\* The numbers of the paragraphs whose synthesis succeeded, in order.
Synthesized ==
    SelectSeq([i \in 1 .. Len(audio.synthesized) |-> i],
              LAMBDA i : audio.synthesized[i] # "raise")

ParagraphsOf(data) == [i \in 1 .. Len(data) |-> data[i].paragraph]

SpeechOf(data) == SelectSeq(data, LAMBDA d : d.kind = "speech")

\* data is the stretches `segments` in order, with one half-second silence
\* between each two consecutive ones and none before or after.
Interleaved(data, segments) ==
    /\ Len(segments) > 0
    /\ Len(data) = 2 * Len(segments) - 1
    /\ \A i \in 1 .. Len(data) :
          IF i % 2 = 1 THEN data[i] = segments[(i + 1) \div 2]
          ELSE /\ data[i].kind = "silence"
               /\ 2 * data[i].samples = SAMPLE_RATE

\* One segment per non-empty paragraph whose synthesis succeeded; a failed
\* synthesis skips its paragraph and the loop goes on to the last one.
OneSegmentPerSynthesizedParagraph ==
    (AudioReturned /\ audio.paragraphs # << >>) =>
        /\ Len(audio.synthesized) = Len(audio.paragraphs)
        /\ ParagraphsOf(audio.audio_segments) = Synthesized

\* C19 as stated: the k segments whose synthesis succeeded are concatenated
\* in paragraph order with exactly k-1 half-second silences, and None is
\* returned when no segment could be produced.
C19_AllSynthesizedSegmentsConcatenated ==
    /\ OneSegmentPerSynthesizedParagraph
    /\ (AudioReturned /\ audio.ret # "None") =>
          Interleaved(audio.combined_data, audio.audio_segments)
    /\ (AudioReturned /\ audio.audio_segments = << >>) => audio.ret = "None"

\* C19 amended: the segments concatenated are those that were synthesized
\* and could be read back; they are k of the synthesized ones, in paragraph
\* order, with exactly k-1 half-second silences; None is returned when no
\* segment could be produced or none could be read back.
C19_ReadableSegmentsConcatenated ==
    /\ OneSegmentPerSynthesizedParagraph
    /\ (AudioReturned /\ audio.ret # "None") =>
          /\ Interleaved(audio.combined_data, audio.read_back)
          /\ \A i \in 1 .. Len(audio.read_back) :
                /\ \E k \in 1 .. Len(audio.audio_segments) :
                      audio.audio_segments[k] = audio.read_back[i]
                /\ i > 1 => audio.read_back[i - 1].paragraph
                               < audio.read_back[i].paragraph
    /\ (AudioReturned /\ audio.audio_segments = << >>) => audio.ret = "None"
    /\ (AudioReturned /\ audio.paragraphs # << >> /\ audio.read_back = << >>)
          => audio.ret = "None"

\* Three paragraphs are synthesized, the second segment cannot be read
\* back: the first and the third are joined by one silence.
C19_Witness ==
    /\ AudioReturned
    /\ audio.ret = "combined_audio_path"
    /\ audio.synthesized = << "chunks", "chunks", "chunks" >>
    /\ ParagraphsOf(audio.audio_segments) = << 1, 2, 3 >>
    /\ ParagraphsOf(audio.combined_data) = << 1, 0, 3 >>

(***************************************************************************)
(* Claims about generate_prompt                                            *)
(***************************************************************************)
PromptReturned == prompter.pc = "returned" /\ prompter.ret # << "None" >>

\* C23: whenever generate_prompt returns a prompt, whatever the model's
\* output, the prompt contains "Generate a story about", "highly detailed 3d
\* cartoon animation style" and "16:9".
C23_PromptHasThreePhrases ==
    PromptReturned =>
        /\ ContainsPhrase(prompter.ret, story_about)
        /\ ContainsPhrase(prompter.ret, animation_style)
        /\ ContainsPhrase(prompter.ret, sixteen_nine)

\* The output matches the pattern after some leading text and lacks the
\* aspect ratio: the prompt starts at the phrase and the sentence is added.
C23_Witness ==
    /\ PromptReturned
    /\ prompt_pattern_matches(prompter.generated_prompt)
    /\ FindPhrase(prompter.generated_prompt, story_about) > 1
    /\ ~ContainsPhrase(prompter.generated_prompt, sixteen_nine)
    /\ PhraseAt(prompter.ret, story_about, 1)

\* The activation of retry_api_call that generate wraps around
\* generate_prompt (line 103).
PromptCall == wrapped(gen.env.prompt = "raise", gen.env.prompt)

\* C22: within one call of generate with the prompt generator enabled,
\* generate_prompt is invoked exactly once, and when prompt generation fails
\* generate goes on with prompt_input as the prompt.
C22_PromptOnceThenFallback ==
    (GenReturned /\ gen.use_prompt_generator) =>
        /\ Len(PromptCall.invoked) = 1
        /\ gen.env.prompt # "prompt" =>
              /\ PromptStagePassed
              /\ gen.ret.kind = "dict" => gen.ret.prompt_text = "prompt_input"

(***************************************************************************)
(* Further claims about create_video_from_images_and_audio                 *)
(***************************************************************************)
SomeRunExitedZero ==
    \E i \in 1 .. Len(video.runs) :
        video.runs[i].exited /\ video.runs[i].returncode = 0

\* C24: the function returns the output video path if and only if one of
\* its FFmpeg invocations exited with status zero (so whenever the primary
\* one did), and it returns None without invoking FFmpeg when the image list
\* is empty or the audio file is absent.
C24_PathIffSomeExitZero ==
    VideoReturned =>
        /\ (video.ret = "output_video") <=> SomeRunExitedZero
        /\ (video.image_count = 0 \/ ~video.has_audio)
              => (video.ret = "None" /\ video.runs = << >>)

\* C25: the images given to FFmpeg are the input images, as many and in the
\* same order, each resized or, when its resize failed, as it was; the image
\* count the duration is divided by is their number, at least 1.
C25_SameImagesSameOrder ==
    video.pc \in {"probe", "primary", "info", "fallback"} =>
        /\ Len(video.resized_images) = video.image_count
        /\ \A i \in 1 .. Len(video.resized_images) :
              video.resized_images[i].image = i
        /\ video.image_count >= 1
        /\ video.pc # "probe" =>
              /\ video.total_images = video.image_count
              /\ Len(video.display_times) = video.image_count

\* Three images, the first and the last could not be resized, and the
\* duration has been divided by 3.
C25_Witness ==
    /\ video.pc = "primary"
    /\ video.image_count = 3
    /\ ~video.resized_images[1].resized
    /\ video.resized_images[2].resized
    /\ ~video.resized_images[3].resized
    /\ video.total_images = 3

====
